---- MODULE Spec2Model ----
(***************************************************************************)
(* A model of the refetch request pipeline (src/src/refetch.ts, create(),  *)
(* first definition, and the helpers of utils.ts in src/unnamed/part_001). *)
(*                                                                         *)
(* Strings are sequences of tokens (words and separators); toLowerCase and *)
(* includes are computed token by token from tables. Time is abstracted:   *)
(* an armed timer may expire at any moment, durations are left out.        *)
(* A transform or monitor is arbitrary caller code: each invocation        *)
(* nondeterministically returns (after mutating its argument) or throws.   *)
(***************************************************************************)
EXTENDS Integers, Sequences, FiniteSets, TLC

\* ------------------------------------------------------------------ bounds
\* Longest registration list (request transforms, response transforms, monitors).
MaxRegistered == 2

\* ------------------------------------------------------------- JS values
Undefined == "undefined"
JsNull == "null"
\* An absent number (status?: number, timeout?: number).
UndefinedNum == -1

\* Thrown values and rejection reasons. kind "error": an object with a name
\* and a string message; kind "null": the value null (falsy); kind "value":
\* a truthy value without name or message (a thrown string, a plain object).
MkError(n, m) == [kind |-> "error", name |-> n, message |-> m]
NullValue == [kind |-> "null", name |-> Undefined, message |-> <<>>]
PlainValue == [kind |-> "value", name |-> Undefined, message |-> <<>>]
NoError == [kind |-> "none", name |-> Undefined, message |-> <<>>]

\* String.prototype.toLowerCase on one token.
LowerToken(t) ==
  CASE t = "Aborted" -> "aborted"
    [] t = "Timeout" -> "timeout"
    [] t = "Connection" -> "connection"
    [] t = "Refused" -> "refused"
    [] t = "Request" -> "request"
    [] t = "Failed" -> "failed"
    [] t = "Not" -> "not"
    [] t = "Found" -> "found"
    [] t = "HTTP" -> "http"
    [] t = "GET" -> "get"
    [] t = "POST" -> "post"
    [] t = "PUT" -> "put"
    [] t = "PATCH" -> "patch"
    [] t = "DELETE" -> "delete"
    [] t = "HEAD" -> "head"
    [] t = "LINK" -> "link"
    [] t = "UNLINK" -> "unlink"
    [] t = "PROPFIND" -> "propfind"
    [] t = "Content-Type" -> "content-type"
    [] t = "Accept" -> "accept"
    [] t = "X-Api-Key" -> "x-api-key"
    [] t = "Authorization" -> "authorization"
    [] t = "ACCEPT" -> "accept"
    [] t = "X-Request-Id" -> "x-request-id"
    [] t = "X-Trace" -> "x-trace"
    [] OTHER -> t

\* String.prototype.toUpperCase on a method token.
UpperToken(t) ==
  CASE t = "get" -> "GET"
    [] t = "post" -> "POST"
    [] t = "propfind" -> "PROPFIND"
    [] t = "delete" -> "DELETE"
    [] OTHER -> t

toLowerCase(s) == [i \in DOMAIN s |-> LowerToken(s[i])]

\* The keywords of classifyProblem that occur as substrings of a lower-case token.
KeywordsIn(t) ==
  CASE t = "aborted" -> {"aborted"}
    [] t = "timeout" -> {"timeout"}
    [] t = "fetch" -> {"fetch"}
    [] t = "network" -> {"network"}
    [] t = "connection" -> {"connection"}
    [] t = "connections" -> {"connection"}
    [] t = "refused" -> {"refused"}
    [] OTHER -> {}

\* String.prototype.includes(keyword).
includes(s, kw) == \E i \in DOMAIN s : kw \in KeywordsIn(s[i])

\* ---------------------------------------------------------- constants.ts
SUCCESS_MIN == 200
SUCCESS_MAX == 299
CLIENT_ERROR_MIN == 400
CLIENT_ERROR_MAX == 499
SERVER_ERROR_MIN == 500
SERVER_ERROR_MAX == 599
DEFAULT_TIMEOUT == 10000
DEFAULT_HEADERS == << <<"Content-Type", "application/json">>, <<"Accept", "application/json">> >>

\* PROBLEM_CODE (types.ts)
PROBLEM_CODE ==
  {"NONE", "CLIENT_ERROR", "SERVER_ERROR", "TIMEOUT_ERROR", "CONNECTION_ERROR",
   "NETWORK_ERROR", "CANCEL_ERROR", "UNKNOWN_ERROR"}

\* ------------------------------------------------------------- utils.ts
\* `error.message?.toLowerCase() || ''`
ErrorMessageLower(error) ==
  IF error.kind = "error" THEN toLowerCase(error.message) ELSE <<>>

\* Status ranges compared with < at their upper end.
ClassifyStatus_Exclusive(status) ==
  IF status # UndefinedNum /\ status >= CLIENT_ERROR_MIN /\ status < CLIENT_ERROR_MAX
    THEN "CLIENT_ERROR"
  ELSE IF status # UndefinedNum /\ status >= SERVER_ERROR_MIN /\ status < SERVER_ERROR_MAX
    THEN "SERVER_ERROR"
  ELSE IF status # UndefinedNum /\ status >= SUCCESS_MIN /\ status < SUCCESS_MAX
    THEN "NONE"
  ELSE "UNKNOWN_ERROR"

\* The status rules of classifyProblem (`if (status !== undefined)`).
ClassifyStatus(status) ==
  IF status # UndefinedNum /\ status >= CLIENT_ERROR_MIN /\ status <= CLIENT_ERROR_MAX
    THEN "CLIENT_ERROR"
  ELSE IF status # UndefinedNum /\ status >= SERVER_ERROR_MIN /\ status <= SERVER_ERROR_MAX
    THEN "SERVER_ERROR"
  ELSE IF status # UndefinedNum /\ status >= SUCCESS_MIN /\ status <= SUCCESS_MAX
    THEN "NONE"
  ELSE "UNKNOWN_ERROR"

\* classifyProblem(status, error); `if (error)` is false for null and for no error.
classifyProblem(status, error) ==
  LET truthy == error.kind \in {"error", "value"}
      errorName == error.name
      errorMessage == ErrorMessageLower(error)
  IN  IF truthy /\ (errorName = "AbortError" \/ includes(errorMessage, "aborted"))
        THEN IF includes(errorMessage, "timeout") THEN "TIMEOUT_ERROR" ELSE "CANCEL_ERROR"
      ELSE IF truthy /\ errorName = "TypeError"
                /\ (includes(errorMessage, "fetch") \/ includes(errorMessage, "network"))
        THEN "NETWORK_ERROR"
      ELSE IF truthy /\ (includes(errorMessage, "connection") \/ includes(errorMessage, "refused"))
        THEN "CONNECTION_ERROR"
      ELSE ClassifyStatus(status)

\* A body decision that compares the method as it was written.
shouldHaveBody_CaseSensitive(method) == method \notin {"GET", "HEAD", "DELETE"}

\* shouldHaveBody(method)
shouldHaveBody(method) == UpperToken(method) \notin {"GET", "HEAD", "DELETE"}

\* ------------------------------------------------------------- headers
\* A Headers object: a function from lower-case header names to values.
EmptyHeaders == [x \in {} |-> ""]

\* Headers.prototype.set(name, value): names are case-insensitive.
HeadersSet(h, name, value) ==
  [x \in (DOMAIN h) \cup {LowerToken(name)} |->
     IF x = LowerToken(name) THEN value ELSE h[x]]

\* A header source (HeadersInit | undefined): absent, a plain object given by
\* its entries in iteration order, or a Headers object.
NoHeaders == [t |-> "undefined", entries |-> <<>>, map |-> EmptyHeaders]
RecordHeaders(es) == [t |-> "record", entries |-> es, map |-> EmptyHeaders]
HeadersObject(h) == [t |-> "Headers", entries |-> <<>>, map |-> h]

RECURSIVE SetEntries(_, _)
SetEntries(merged, es) ==
  IF es = <<>> THEN merged
  ELSE SetEntries(HeadersSet(merged, Head(es)[1], Head(es)[2]), Tail(es))

\* One iteration of mergeHeaders' loop: `if (!headers) continue`, else set every entry.
MergeOne(merged, src) ==
  IF src.t = "undefined" THEN merged
  ELSE IF src.t = "Headers"
    THEN [x \in (DOMAIN merged) \cup (DOMAIN src.map) |->
            IF x \in DOMAIN src.map THEN src.map[x] ELSE merged[x]]
  ELSE SetEntries(merged, src.entries)

RECURSIVE MergeFrom(_, _)
MergeFrom(merged, list) ==
  IF list = <<>> THEN merged ELSE MergeFrom(MergeOne(merged, Head(list)), Tail(list))

\* mergeHeaders(...headersList)
mergeHeaders(headersList) == MergeFrom(EmptyHeaders, headersList)

\* `new Headers(init)`: what the transport makes of the headers it is handed.
NewHeaders(src) == MergeOne(EmptyHeaders, src)

\* ----------------------------------------------------------------- URLs
\* URLSearchParams serialisation of one token (a space becomes '+').
EncodeToken(t) == CASE t = "a b" -> "a+b" [] OTHER -> t

\* A query value: null/undefined, a scalar, or a list of scalars.
NullParam == [t |-> "null", v |-> "", items |-> <<>>]
ScalarParam(x) == [t |-> "scalar", v |-> x, items |-> <<>>]
ListParam(xs) == [t |-> "list", v |-> "", items |-> xs]

Pair(k, v) == <<EncodeToken(k), "=", EncodeToken(v)>>
\* A serialisation that puts each new pair in front.
Join_Prepend(qs, pair) == IF qs = <<>> THEN pair ELSE pair \o <<"&">> \o qs

Join(qs, pair) == IF qs = <<>> THEN pair ELSE qs \o <<"&">> \o pair

RECURSIVE AppendItems(_, _, _)
AppendItems(qs, k, items) ==
  IF items = <<>> THEN qs
  ELSE AppendItems(Join(qs, Pair(k, Head(items))), k, Tail(items))

RECURSIVE AppendParams(_, _)
AppendParams(qs, params) ==
  IF params = <<>> THEN qs
  ELSE LET k == Head(params)[1]
           val == Head(params)[2]
           next == IF val.t = "null" THEN qs
                   ELSE IF val.t = "list" THEN AppendItems(qs, k, val.items)
                   ELSE Join(qs, Pair(k, val.v))
       IN  AppendParams(next, Tail(params))

\* buildQueryString(params); params is the mapping's entries in iteration order.
buildQueryString(params) == AppendParams(<<>>, params)

IsAbsolute(url) == url # <<>> /\ Head(url) \in {"http://", "https://"}
HasQuery(url) == \E i \in DOMAIN url : url[i] = "?"
WithQuery(u, qs) ==
  IF qs # <<>> THEN u \o <<IF HasQuery(u) THEN "&" ELSE "?">> \o qs ELSE u

\* A builder that keeps the trailing slash of the base.
buildUrl_KeepSlash(baseURL, url, params) ==
  IF IsAbsolute(url) THEN WithQuery(url, buildQueryString(params))
  ELSE LET normalizedUrl ==
             IF url # <<>> /\ Head(url) = "/" THEN url ELSE <<"/">> \o url
           fullUrl == IF baseURL # <<>> THEN baseURL \o normalizedUrl ELSE url
       IN  WithQuery(fullUrl, buildQueryString(params))

\* buildUrl(baseURL, url, params); baseURL <<>> is undefined or ''.
buildUrl(baseURL, url, params) ==
  IF IsAbsolute(url) THEN WithQuery(url, buildQueryString(params))
  ELSE LET normalizedBase ==
             IF baseURL[Len(baseURL)] = "/" THEN SubSeq(baseURL, 1, Len(baseURL) - 1)
             ELSE baseURL
           normalizedUrl ==
             IF url # <<>> /\ Head(url) = "/" THEN url ELSE <<"/">> \o url
           fullUrl == IF baseURL # <<>> THEN normalizedBase \o normalizedUrl ELSE url
       IN  WithQuery(fullUrl, buildQueryString(params))

\* ---------------------------------------------------------------- bodies
\* The third positional argument and the data/params fields: undefined, null,
\* a string, a FormData, a URLSearchParams, or an object (entries: its own
\* enumerable entries in iteration order, which is what a query mapping is).
NoData == [t |-> "undefined", v |-> "", entries |-> <<>>]
Data(kind, x) == [t |-> kind, v |-> x, entries |-> <<>>]
Mapping(x, es) == [t |-> "object", v |-> x, entries |-> es]

\* JSON.stringify / JSON.parse on the values the model sends and receives.
\* JSON.stringify throws a TypeError on a circular structure.
StringifyThrows(data) == data.t = "object" /\ data.v = "circular"
CircularError == MkError("TypeError", <<"Converting", "circular", "structure", "to", "JSON">>)

JsonStringify(x) ==
  CASE x = "obj:id=1" -> "{id:1}"
    [] x = "obj:err" -> "{error}"
    [] x = "obj:active=true" -> "{active:true}"
    [] OTHER -> x
JsonParse(text) ==
  CASE text = "{id:1}" -> "obj:id=1"
    [] text = "{error}" -> "obj:err"
    [] text = "{active:true}" -> "obj:active=true"
    [] OTHER -> "SyntaxError"

\* prepareRequestBody(data)
prepareRequestBody(data) ==
  IF data.t \in {"undefined", "null"} THEN NoData
  ELSE IF data.t \in {"FormData", "URLSearchParams", "string"} THEN data
  ELSE Data("string", JsonStringify(data.v))

\* The substrings parseResponseBody looks for in a content-type value.
ContentTypeIncludes(ct, part) ==
  CASE ct = "application/json; charset=utf-8" -> part = "application/json"
    [] ct = "text/plain" -> part = "text/"
    [] ct = "application/xml" -> part = "application/xml"
    [] ct = "application/octet-stream" -> part = "application/octet-stream"
    [] OTHER -> FALSE

\* parseResponseBody(response): any failure while reading or parsing gives null.
parseResponseBody(response) ==
  LET ct == IF "content-type" \in DOMAIN response.headers
            THEN response.headers["content-type"] ELSE JsNull
      text == response.text
  IN  IF ~response.readable THEN JsNull
      ELSE IF ct = JsNull THEN (IF text = "" THEN JsNull ELSE text)
      ELSE IF ContentTypeIncludes(ct, "application/json")
        THEN (IF JsonParse(text) = "SyntaxError" THEN JsNull ELSE JsonParse(text))
      ELSE IF ContentTypeIncludes(ct, "text/") \/ ContentTypeIncludes(ct, "application/xml")
        THEN text
      ELSE IF ContentTypeIncludes(ct, "application/octet-stream") THEN "blob"
      ELSE text

\* ------------------------------------------------------------- envelopes
\* An ok flag that is true for status 200 only.
ResponseOk_Only200(response) == response.status = SUCCESS_MIN

\* Response.ok
ResponseOk(response) == response.status >= SUCCESS_MIN /\ response.status <= SUCCESS_MAX

NoResponse ==
  [status |-> UndefinedNum, statusText |-> <<>>, headers |-> EmptyHeaders,
   text |-> "", readable |-> FALSE]

\* headersToObject(headers): the flattened mapping, keyed by lower-case name.
headersToObject(h) == HeadersObject(h)

\* normalizeSuccessResponse(data, response, duration); marks records the
\* mutations response transforms make afterwards.
normalizeSuccessResponse(data, response) ==
  [ok |-> TRUE, problem |-> JsNull, originalError |-> NoError, data |-> data,
   status |-> response.status, headers |-> headersToObject(response.headers),
   response |-> response, marks |-> <<>>]

\* An error envelope that reports no data as null.
normalizeErrorResponse_NullData(error, response) ==
  [ok |-> FALSE, problem |-> classifyProblem(response.status, error),
   originalError |-> error, data |-> JsNull,
   status |-> response.status,
   headers |-> IF response = NoResponse THEN NoHeaders
               ELSE headersToObject(response.headers),
   response |-> response, marks |-> <<>>]

\* normalizeErrorResponse(error, response, duration); response NoResponse is undefined.
normalizeErrorResponse(error, response) ==
  [ok |-> FALSE, problem |-> classifyProblem(response.status, error),
   originalError |-> error, data |-> Undefined,
   status |-> response.status,
   headers |-> IF response = NoResponse THEN NoHeaders
               ELSE headersToObject(response.headers),
   response |-> response, marks |-> <<>>]

\* `new Error(`HTTP ${method} ${fullUrl} failed with status ${status}: ${statusText}`)`
HttpError(method, fullUrl, response) ==
  MkError("Error",
          <<"HTTP", method>> \o fullUrl \o <<"failed", "with", "status">>
            \o <<ToString(response.status)>> \o response.statusText)

\* ------------------------------------------------------------------ state
VARIABLES
  config,              \* state.config: baseURL, headers (a Headers object), timeout
  requestTransforms,   \* state.requestTransforms
  responseTransforms,  \* state.responseTransforms
  monitors,            \* state.monitors
  calls,               \* one record per call of request()
  signals,             \* the caller's AbortSignal of each call
  snapshot,            \* the value the `config` getter returned last
  lastReturn           \* the last return value of a function that returns one

vars == <<config, requestTransforms, responseTransforms, monitors, calls, signals, snapshot,
          lastReturn>>

\* The calls of request() the model follows; Spec makes the first one only.
AllCalls == {"c1", "c2"}
Calls == {"c1"}

\* The header set of a RequestConfig that is the instance's own Headers object
\* (`{...state.config}` copies the reference).
InstanceHeadersRef == [t |-> "instance", entries |-> <<>>, map |-> EmptyHeaders]
Deref(src) == IF src.t = "instance" THEN HeadersObject(config.headers) ELSE src

\* A RequestConfig; absent fields are <<>>, NoHeaders, UndefinedNum, FALSE, NoData.
EmptyRequestConfig ==
  [url |-> <<>>, method |-> "", params |-> NoData, data |-> NoData,
   headers |-> NoHeaders, timeout |-> UndefinedNum, baseURL |-> <<>>,
   signal |-> FALSE, marks |-> <<>>]

\* The array a `for ... of` loop of the call iterates: the instance's list
\* as long as it is the list's current array (live), else the array it was
\* when clear*() replaced it by a new one.
LiveArray == [live |-> TRUE, arr |-> <<>>]
DetachedArray(list) == [live |-> FALSE, arr |-> list]
IteratedArray(it, list) == IF it.live THEN list ELSE it.arr

IdleCall ==
  [pc |-> "idle", method |-> "", url |-> <<>>, arg |-> NoData,
   config |-> EmptyRequestConfig,
   i |-> 0, inCatch |-> FALSE, envs |-> <<>>, sent |-> <<>>,
   iterated |-> LiveArray,
   timerArmed |-> FALSE, timerMs |-> 0,
   listening |-> FALSE, aborted |-> FALSE, reason |-> NoError,
   fetchError |-> NoError, beforeMonitors |-> <<>>, outcomes |-> <<>>, returned |-> 0,
   pendingMonitors |-> {}, unhandled |-> {}, cancellations |-> <<>>,
   thrown |-> <<>>, atStart |-> <<>>,
   reqLog |-> <<>>, running |-> {}, respLog |-> <<>>, monLog |-> <<>>,
   throws |-> <<>>, stages |-> <<>>, result |-> "pending", rejection |-> NoError]

\* early: it was cancelled before fetchWithTimeout subscribed to it.
FreshSignal == [aborted |-> FALSE, reason |-> NoError, early |-> FALSE]

\* The object `get config()` returns: `{ ...state.config }`, a copy of the
\* fields whose headers field is the instance's own Headers object.
NoSnapshot ==
  [taken |-> FALSE, baseURL |-> <<>>, timeout |-> UndefinedNum, headers |-> NoHeaders]

\* create(config): the instance after construction (headers normalised to a
\* Headers object, the three lists empty).
create(cfg) ==
  /\ config = [baseURL |-> cfg.baseURL, headers |-> NewHeaders(cfg.headers),
               timeout |-> cfg.timeout]
  /\ requestTransforms = <<>>
  /\ responseTransforms = <<>>
  /\ monitors = <<>>

\* ------------------------------------------------------------ registration
addRequestTransform(t) ==
  /\ requestTransforms' = Append(requestTransforms, t)
  /\ UNCHANGED <<config, responseTransforms, monitors, calls, signals, snapshot, lastReturn>>

addResponseTransform(t) ==
  /\ responseTransforms' = Append(responseTransforms, t)
  /\ UNCHANGED <<config, requestTransforms, monitors, calls, signals, snapshot, lastReturn>>

addMonitor(m) ==
  /\ monitors' = Append(monitors, m)
  /\ UNCHANGED <<config, requestTransforms, responseTransforms, calls, signals, snapshot, lastReturn>>

\* Array.prototype.indexOf (0 for -1) and splice(index, 1).
IndexOf(list, t) ==
  IF \E k \in DOMAIN list : list[k] = t
    THEN CHOOSE k \in DOMAIN list : list[k] = t /\ \A j \in 1..(k - 1) : list[j] # t
    ELSE 0
Splice(list, k) == SubSeq(list, 1, k - 1) \o SubSeq(list, k + 1, Len(list))
\* A removal that takes the last occurrence (lastIndexOf).
Remove_Last(list, t) ==
  IF \E k \in DOMAIN list : list[k] = t
    THEN Splice(list, CHOOSE k \in DOMAIN list :
                        list[k] = t /\ \A j \in (k + 1)..Len(list) : list[j] # t)
    ELSE list

\* `indexOf` and `splice(index, 1)`.
Remove(list, t) == IF IndexOf(list, t) > 0 THEN Splice(list, IndexOf(list, t)) ELSE list

\* `if (index > -1) { splice(index, 1); return true; } return false;`
RemoveReturns(list, t) == IndexOf(list, t) > 0

\* What a function returned: its name, its arguments, the value (the remove
\* functions: the value only).
\* result: <<>> while the function has not returned, then <<value>>.
Applied(op, args) == [op |-> op, args |-> args, result |-> <<>>]
Returned(op, args, result) == [op |-> op, args |-> args, result |-> <<result>>]
NoReturn == Applied("none", <<>>)

removeRequestTransform(t) ==
  /\ requestTransforms' = Remove(requestTransforms, t)
  /\ lastReturn' = Returned("remove", <<>>, RemoveReturns(requestTransforms, t))
  /\ UNCHANGED <<config, responseTransforms, monitors, calls, signals, snapshot>>

removeResponseTransform(t) ==
  /\ responseTransforms' = Remove(responseTransforms, t)
  /\ lastReturn' = Returned("remove", <<>>, RemoveReturns(responseTransforms, t))
  /\ UNCHANGED <<config, requestTransforms, monitors, calls, signals, snapshot>>

removeMonitor(m) ==
  /\ monitors' = Remove(monitors, m)
  /\ lastReturn' = Returned("remove", <<>>, RemoveReturns(monitors, m))
  /\ UNCHANGED <<config, requestTransforms, responseTransforms, calls, signals, snapshot>>

\* `state.x = []`: a new array; a loop that is iterating the old one keeps it.
Detach(pcs, list) ==
  [c \in AllCalls |->
     IF calls[c].pc \in pcs /\ calls[c].iterated.live
       THEN [calls[c] EXCEPT !.iterated = DetachedArray(list)]
       ELSE calls[c]]

clearRequestTransforms ==
  /\ requestTransforms' = <<>>
  /\ calls' = Detach({"requestTransforms", "requestTransform"}, requestTransforms)
  /\ UNCHANGED <<config, responseTransforms, monitors, signals, snapshot, lastReturn>>

clearResponseTransforms ==
  /\ responseTransforms' = <<>>
  /\ calls' = Detach({"responseTransforms", "responseTransform"}, responseTransforms)
  /\ UNCHANGED <<config, requestTransforms, monitors, signals, snapshot, lastReturn>>

clearMonitors ==
  /\ monitors' = <<>>
  /\ UNCHANGED <<config, requestTransforms, responseTransforms, calls, signals, snapshot, lastReturn>>

\* ------------------------------------------------------- instance config
\* Headers.prototype.delete(name)
HeadersDelete(h, name) == [x \in (DOMAIN h) \ {LowerToken(name)} |-> h[x]]

setHeader(name, value) ==
  /\ config' = [config EXCEPT !.headers = HeadersSet(@, name, value)]
  /\ UNCHANGED <<requestTransforms, responseTransforms, monitors, calls, signals, snapshot, lastReturn>>

\* setHeaders(headers): setHeader for every entry, in order.
setHeaders(entries) ==
  /\ config' = [config EXCEPT !.headers = SetEntries(@, entries)]
  /\ UNCHANGED <<requestTransforms, responseTransforms, monitors, calls, signals, snapshot, lastReturn>>

deleteHeader(name) ==
  /\ config' = [config EXCEPT !.headers = HeadersDelete(@, name)]
  /\ UNCHANGED <<requestTransforms, responseTransforms, monitors, calls, signals, snapshot, lastReturn>>

setBaseURL(baseURL) ==
  /\ config' = [config EXCEPT !.baseURL = baseURL]
  /\ UNCHANGED <<requestTransforms, responseTransforms, monitors, calls, signals, snapshot, lastReturn>>

getBaseURL == config.baseURL

\* `get config()`: `return { ...state.config }`.
GetConfig ==
  /\ snapshot' = [taken |-> TRUE, baseURL |-> config.baseURL, timeout |-> config.timeout,
                   headers |-> InstanceHeadersRef]
  /\ UNCHANGED <<config, requestTransforms, responseTransforms, monitors, calls, signals,
               lastReturn>>

\* What a caller does to the value the getter returned: assign to its
\* baseURL or timeout field, or set a header on its header set.
SnapshotMutations == {"baseURL", "timeout", "headers.set"}

MutateSnapshot(mutation) ==
  /\ snapshot.taken
  /\ snapshot' =
       IF mutation = "baseURL" THEN [snapshot EXCEPT !.baseURL = <<"https://", "other.example.com">>]
       ELSE IF mutation = "timeout" THEN [snapshot EXCEPT !.timeout = 1]
       ELSE snapshot
  /\ config' =
       IF mutation = "headers.set" /\ snapshot.headers.t = "instance"
         THEN [config EXCEPT !.headers = HeadersSet(@, "X-Trace", "snap")]
         ELSE config
  /\ UNCHANGED <<requestTransforms, responseTransforms, monitors, calls, signals, lastReturn>>

\* ------------------------------------------------------------ request()
\* `{...state.config, ...requestConfig, url, method: method.toUpperCase()}` and
\* the data/params assignment (the start of request(), up to the first await).
MergeConfig(method, url, dataOrParams, requestConfig) ==
  LET merged ==
        [url |-> url,
         method |-> UpperToken(method),
         params |-> requestConfig.params,
         data |-> requestConfig.data,
         headers |-> IF requestConfig.headers.t = "undefined" THEN InstanceHeadersRef
                     ELSE requestConfig.headers,
         timeout |-> IF requestConfig.timeout = UndefinedNum THEN config.timeout
                     ELSE requestConfig.timeout,
         baseURL |-> IF requestConfig.baseURL = <<>> THEN config.baseURL
                     ELSE requestConfig.baseURL,
         signal |-> requestConfig.signal,
         marks |-> <<>>]
  IN  IF shouldHaveBody(method) THEN [merged EXCEPT !.data = dataOrParams]
      ELSE [merged EXCEPT !.params = dataOrParams]

request(c, method, url, dataOrParams, requestConfig) ==
  /\ calls[c].pc = "idle"
  /\ calls' = [calls EXCEPT ![c] =
       [@ EXCEPT !.pc = "requestTransforms", !.method = method, !.url = url,
                 !.arg = dataOrParams,
                 !.stages = <<"Building", "RequestTransforms">>,
                 !.config = MergeConfig(method, url, dataOrParams, requestConfig),
                 !.iterated = LiveArray, !.i = 1,
                 !.atStart = <<[config |-> config,
                                requestTransforms |-> requestTransforms,
                                responseTransforms |-> responseTransforms,
                                monitors |-> monitors]>>]]
  /\ UNCHANGED <<config, requestTransforms, responseTransforms, monitors, signals, snapshot, lastReturn>>

\* A catch block that starts the request over.
Catch_Retry(call, error) ==
  [call EXCEPT !.pc = "requestTransforms", !.i = 1, !.running = {},
               !.iterated = LiveArray]

\* The catch block of request(): a no-response envelope from the caught value,
\* then the response transforms again.
Catch(call, error) ==
  [call EXCEPT !.pc = "responseTransforms", !.i = 1, !.inCatch = TRUE,
               !.running = {}, !.iterated = LiveArray,
               !.stages = @ \o <<"Normalizing", "ResponseTransforms">>,
               !.envs = Append(@, normalizeErrorResponse(error, NoResponse))]

\* A throw that leaves request(): inside the try block it is caught, inside
\* the catch block it rejects the promise request() returned.
Throw(call, error) ==
  IF ~call.inCatch THEN Catch(call, error)
  ELSE [call EXCEPT !.pc = "done", !.running = {}, !.result = "rejected",
                    !.stages = Append(@, "Rejected"), !.rejection = error]

\* Values a transform may throw.
ThrownValues ==
  {MkError("Error", <<"boom">>), NullValue, MkError("Error", <<"Connection", "lost">>)}

\* applyRequestTransforms: `for (const transform of state.requestTransforms)
\* await transform(requestConfig)`. The iterator reads the live array.
RequestTransformAt_Reversed(arr, i) == arr[Len(arr) + 1 - i]

RequestTransformAt(arr, i) == arr[i]

RequestTransformStart(c) ==
  LET call == calls[c]
      arr == IteratedArray(call.iterated, requestTransforms) IN
  /\ call.pc = "requestTransforms"
  /\ call.i <= Len(arr)
  /\ calls' = [calls EXCEPT ![c] =
       [@ EXCEPT !.pc = "requestTransform",
                 !.running = @ \cup {RequestTransformAt(arr, call.i)},
                 !.reqLog = Append(@, <<RequestTransformAt(arr, call.i), call.config.marks>>)]]
  /\ UNCHANGED <<config, requestTransforms, responseTransforms, monitors, signals, snapshot, lastReturn>>

\* `obj[name] = value` on a plain object given by its entries.
RECURSIVE RecordAssign(_, _, _)
RecordAssign(es, name, value) ==
  IF es = <<>> THEN << <<name, value>> >>
  ELSE IF Head(es)[1] = name THEN << <<name, value>> >> \o Tail(es)
  ELSE <<Head(es)>> \o RecordAssign(Tail(es), name, value)

\* What a request transform does to the RequestConfig it is given, besides
\* leaving its mark: nothing more, or set a header in place on the header
\* set the config holds (`headers.set(n, v)` on a Headers object,
\* `headers[n] = v` on a plain object).
RequestMutations == {"none", "set"}

\* The header set of the RequestConfig after the in-place set.
HeaderSourceSet(src, name, value) ==
  IF src.t = "record" THEN RecordHeaders(RecordAssign(src.entries, name, value))
  ELSE IF src.t = "Headers" THEN HeadersObject(HeadersSet(src.map, name, value))
  ELSE src

\* A request transform may also assign to a field of the RequestConfig
\* (`config.url = ...`, `config.method = ...`, ...).
TransformMutations == {"url", "method", "params", "data", "timeout", "baseURL"}

ConfigAssign(cfg, mu) ==
  CASE mu = "url" -> [cfg EXCEPT !.url = <<"/", "v2", "/", "users">>]
    [] mu = "method" -> [cfg EXCEPT !.method = IF shouldHaveBody(@) THEN "GET" ELSE "PUT"]
    [] mu = "params" ->
         [cfg EXCEPT !.params = Mapping("obj:page=2", << <<"page", ScalarParam("2")>> >>)]
    [] mu = "data" -> [cfg EXCEPT !.data = Data("string", "patched")]
    [] mu = "timeout" -> [cfg EXCEPT !.timeout = 7]
    [] mu = "baseURL" -> [cfg EXCEPT !.baseURL = <<"https://", "b.example.com">>]
    [] OTHER -> cfg

\* The transform returns (or its promise resolves) after mutating the config.
\* An in-place set on a header set that is the instance's Headers object is
\* a set on state.config.headers.
RequestTransformReturn(c, mu) ==
  LET call == calls[c]
      t == call.reqLog[Len(call.reqLog)][1]
      inPlace == mu = "set" IN
  /\ call.pc = "requestTransform"
  /\ calls' = [calls EXCEPT ![c] =
       [@ EXCEPT !.pc = "requestTransforms", !.i = @ + 1,
                 !.running = @ \ {t},
                 !.config = ConfigAssign(
                              [@ EXCEPT !.marks = Append(@, t),
                                        !.headers = IF inPlace
                                                      THEN HeaderSourceSet(@, "X-Request-Id", c)
                                                      ELSE @], mu)]]
  /\ config' = IF inPlace /\ call.config.headers.t = "instance"
                 THEN [config EXCEPT !.headers = HeadersSet(@, "X-Request-Id", c)]
                 ELSE config
  /\ UNCHANGED <<requestTransforms, responseTransforms, monitors, signals, snapshot, lastReturn>>

\* The transform throws (or its promise rejects) with v.
RequestTransformThrow(c, v) ==
  /\ calls[c].pc = "requestTransform"
  /\ calls' = [calls EXCEPT ![c] =
       Throw([@ EXCEPT !.throws = Append(@, "request"),
                       !.thrown = Append(@, [v |-> v, caught |-> ~calls[c].inCatch,
                                             env |-> Len(calls[c].envs) + 1])], v)]
  /\ UNCHANGED <<config, requestTransforms, responseTransforms, monitors, signals, snapshot, lastReturn>>

\* `{method: config.method, headers, body, timeout: ..., ...config}`: a key
\* the RequestConfig owns replaces the one written before the spread. The
\* config always owns `headers` (create() always sets state.config.headers).
FetchConfigHeaders(merged, cfg) == Deref(cfg.headers)

FetchConfigTimeout(cfg) ==
  IF cfg.timeout # UndefinedNum THEN cfg.timeout ELSE config.timeout

\* What request() hands to fetchWithTimeout, from the transformed config.
FetchConfig(call) ==
  LET cfg == call.config
      fullUrl == buildUrl(IF cfg.baseURL # <<>> THEN cfg.baseURL ELSE config.baseURL,
                          call.url, cfg.params.entries)
      body == IF shouldHaveBody(call.method) THEN prepareRequestBody(cfg.data) ELSE NoData
      shouldApplyDefaultHeaders ==
        \/ body.t = "undefined"
        \/ body.t = "string" /\ body.v = ""
        \/ body.t \notin {"FormData", "URLSearchParams"}
      headers == mergeHeaders(<<IF shouldApplyDefaultHeaders
                                  THEN RecordHeaders(DEFAULT_HEADERS) ELSE NoHeaders,
                                HeadersObject(config.headers),
                                Deref(cfg.headers)>>)
  IN  [url |-> fullUrl, method |-> cfg.method,
       headers |-> NewHeaders(FetchConfigHeaders(headers, cfg)),
       body |-> body, timeout |-> FetchConfigTimeout(cfg), signal |-> cfg.signal]

\* prepareRequestBody throws while request() builds the body.
BuildThrows(call) == shouldHaveBody(call.method) /\ StringifyThrows(call.config.data)

\* `const { timeout = DEFAULT_TIMEOUT, ... } = config` and `if (timeout)`.
\* A destructuring without the default.
TimerDelay_NoDefault(timeout) == IF timeout = UndefinedNum THEN 0 ELSE timeout

TimerDelay(timeout) == IF timeout = UndefinedNum THEN DEFAULT_TIMEOUT ELSE timeout
TimerIsArmed(timeout) == TimerDelay(timeout) # 0

\* The transport invocations fetchWithTimeout makes for one dispatch.
Transmit(sent, req) == Append(sent, req)

\* A mergeHeaders that sets the entries on the first Headers object it is given.
MergeLeaves_InPlace(first, rest) == MergeFrom(first, rest)

\* mergeHeaders sets every entry on `merged = new Headers()`, never on an
\* argument: the instance's Headers object, handed to it by request(), is
\* afterwards what it was.
MergeLeaves(first, rest) == first

\* request() after the request transforms, up to the await of fetch inside
\* fetchWithTimeout: build URL, body and headers, arm the timer, subscribe to
\* the caller's signal, invoke the transport.
Dispatch(c) ==
  LET call == calls[c]
      fc == FetchConfig(call) IN
  /\ call.pc = "requestTransforms"
  /\ call.i > Len(IteratedArray(call.iterated, requestTransforms))
  /\ ~BuildThrows(call)
  /\ calls' = [calls EXCEPT ![c] =
       [@ EXCEPT !.pc = "fetching",
                 !.stages = Append(@, "Dispatching"),
                 !.timerArmed = TimerIsArmed(fc.timeout),
                 !.timerMs = IF TimerIsArmed(fc.timeout) THEN TimerDelay(fc.timeout) ELSE 0,
                 !.listening = fc.signal,
                 !.sent = Transmit(@, [url |-> fc.url, method |-> fc.method,
                                       headers |-> fc.headers, body |-> fc.body])]]
  /\ config' = [config EXCEPT !.headers = MergeLeaves(@, <<Deref(call.config.headers)>>)]
  /\ UNCHANGED <<requestTransforms, responseTransforms, monitors, signals, snapshot, lastReturn>>

\* request() after the request transforms when building the body throws:
\* the transport is not reached.
BuildFail(c) ==
  /\ calls[c].pc = "requestTransforms"
  /\ calls[c].i > Len(IteratedArray(calls[c].iterated, requestTransforms))
  /\ BuildThrows(calls[c])
  /\ calls' = [calls EXCEPT ![c] = Throw(@, CircularError)]
  /\ UNCHANGED <<config, requestTransforms, responseTransforms, monitors, signals, snapshot, lastReturn>>

\* controller.abort(reason): only the first abort sets the reason.
ControllerAbort(call, reason) ==
  IF call.aborted THEN call ELSE [call EXCEPT !.aborted = TRUE, !.reason = reason]

TimeoutReason == MkError("Error", <<"Request", "timeout">>)

\* The setTimeout callback of fetchWithTimeout. cancellations: the calls
\* of controller.abort made while the transport is in flight, in their order.
TimerExpire(c) ==
  /\ calls[c].timerArmed
  /\ calls' = [calls EXCEPT ![c] =
       [ControllerAbort(@, TimeoutReason) EXCEPT !.timerArmed = FALSE,
                                                !.cancellations = Append(@, "timer")]]
  /\ UNCHANGED <<config, requestTransforms, responseTransforms, monitors, signals, snapshot, lastReturn>>

\* The caller cancels the signal it supplied; a subscribed handler forwards
\* signal.reason to the internal controller.
AbortSignal(c, reason) ==
  /\ calls[c].pc \notin {"idle", "done"}
  /\ calls[c].config.signal
  /\ ~signals[c].aborted
  /\ signals' = [signals EXCEPT ![c] =
       [aborted |-> TRUE, reason |-> reason, early |-> calls[c].sent = <<>>]]
  /\ calls' = [calls EXCEPT ![c] =
       IF @.listening
         THEN [ControllerAbort(@, reason) EXCEPT !.cancellations = Append(@, "signal")]
         ELSE @]
  /\ UNCHANGED <<config, requestTransforms, responseTransforms, monitors, snapshot, lastReturn>>

\* A finally block that clears the timer and leaves the abort listener on
\* the caller's signal.
Cleanup_KeepListener(call) == [call EXCEPT !.timerArmed = FALSE]

\* The finally block of fetchWithTimeout.
Cleanup(call) == [call EXCEPT !.timerArmed = FALSE, !.listening = FALSE]

\* The envelope request() builds from a response and its parsed body.
Normalize(call, response) ==
  LET data == parseResponseBody(response)
      sentReq == call.sent[Len(call.sent)] IN
  IF ResponseOk(response) THEN normalizeSuccessResponse(data, response)
  ELSE [normalizeErrorResponse(HttpError(call.config.method, sentReq.url, response), response)
          EXCEPT !.data = data]

\* fetch resolves with a response: cleanup, parse the body, normalise.
TransportRespond(c, response) ==
  /\ calls[c].pc = "fetching"
  /\ ~calls[c].aborted
  /\ calls' = [calls EXCEPT ![c] =
       [Cleanup(@) EXCEPT !.pc = "responseTransforms", !.i = 1, !.iterated = LiveArray,
                          !.stages = @ \o <<"Normalizing", "ResponseTransforms">>,
                          !.envs = Append(@, Normalize(calls[c], response))]]
  /\ UNCHANGED <<config, requestTransforms, responseTransforms, monitors, signals, snapshot, lastReturn>>

\* fetch rejects on its own (no connectivity, DNS failure, ...).
TransportFail(c, error) ==
  /\ calls[c].pc = "fetching"
  /\ ~calls[c].aborted
  /\ calls' = [calls EXCEPT ![c] = Throw([Cleanup(@) EXCEPT !.fetchError = error], error)]
  /\ UNCHANGED <<config, requestTransforms, responseTransforms, monitors, signals, snapshot, lastReturn>>

\* What fetch rejects with once its signal is aborted: the signal's reason,
\* or, in transports older than AbortSignal.reason, their own AbortError.
LegacyAbortError == MkError("AbortError", <<"The", "user", "aborted", "a", "request">>)
AbortRejections(reason) == {reason, LegacyAbortError}

TransportAborted(c, error) ==
  /\ calls[c].pc = "fetching"
  /\ calls[c].aborted
  /\ error \in AbortRejections(calls[c].reason)
  /\ calls' = [calls EXCEPT ![c] = Throw([Cleanup(@) EXCEPT !.fetchError = error], error)]
  /\ UNCHANGED <<config, requestTransforms, responseTransforms, monitors, signals, snapshot, lastReturn>>

\* applyResponseTransforms: `for (const transform of state.responseTransforms)
\* await transform(response)` on the envelope built last.
ResponseTransformAt(arr, i) == arr[i]

ResponseTransformStart(c) ==
  LET call == calls[c]
      arr == IteratedArray(call.iterated, responseTransforms) IN
  /\ call.pc = "responseTransforms"
  /\ call.i <= Len(arr)
  /\ calls' = [calls EXCEPT ![c] =
       [@ EXCEPT !.pc = "responseTransform",
                 !.running = @ \cup {ResponseTransformAt(arr, call.i)},
                 !.respLog = Append(@, <<ResponseTransformAt(arr, call.i), Len(call.envs)>>)]]
  /\ UNCHANGED <<config, requestTransforms, responseTransforms, monitors, signals, snapshot, lastReturn>>

ResponseTransformReturn(c) ==
  LET call == calls[c]
      t == call.respLog[Len(call.respLog)][1] IN
  /\ call.pc = "responseTransform"
  /\ calls' = [calls EXCEPT ![c] =
       [@ EXCEPT !.pc = "responseTransforms", !.i = @ + 1,
                 !.running = @ \ {t},
                 !.envs = [@ EXCEPT ![Len(call.envs)].marks = Append(@, t)]]]
  /\ UNCHANGED <<config, requestTransforms, responseTransforms, monitors, signals, snapshot, lastReturn>>

ResponseTransformThrow(c, v) ==
  /\ calls[c].pc = "responseTransform"
  /\ calls' = [calls EXCEPT ![c] =
       Throw([@ EXCEPT !.throws = Append(@, "response"),
                       !.thrown = Append(@, [v |-> v, caught |-> ~calls[c].inCatch,
                                             env |-> Len(calls[c].envs) + 1])], v)]
  /\ UNCHANGED <<config, requestTransforms, responseTransforms, monitors, signals, snapshot, lastReturn>>

\* What a monitor does with the envelope it is given: return, throw, or
\* assign to a field of the envelope (`response.data = ...`) and return.
MonitorOutcomes == {"return", "throw", "assign"}
Tampered == "tampered"

\* The monitors invoked when the forEach callback has no try/catch.
Notified_Uncaught(outcomes) ==
  {j \in DOMAIN outcomes : \A k \in 1..(j - 1) : outcomes[k] # "throw"}

\* The monitors notifyMonitors invokes, given what the earlier ones did: a
\* throw is caught inside the forEach callback, the loop goes on.
Notified(outcomes) == DOMAIN outcomes

\* A forEach that visits the array from its end.
MonitorAt_Reversed(arr, k) == arr[Len(arr) + 1 - k]

\* `state.monitors.forEach((monitor) => ...)`: the k-th monitor visited.
MonitorAt(arr, k) == arr[k]

\* A monitor may also be an async function: `monitor(response)` then returns
\* a promise, which notifyMonitors drops without awaiting it.
AsyncMonitorOutcomes == {"return", "throw", "async"}

\* notifyMonitors(apiResponse): a synchronous forEach over state.monitors, each
\* monitor given the envelope object itself; what a monitor throws is caught
\* and logged (console.error), what it returns is dropped. outcomes[j] is
\* what the j-th monitor does. monLog: the monitor, the envelope, the data
\* field it read.
notifyMonitors(call, outcomes) ==
  LET n == Len(call.envs)
      Assigned(j) == \E k \in 1..j : k \in Notified(outcomes) /\ outcomes[k] = "assign"
      invoked == {j \in 1..Len(monitors) : j \in Notified(outcomes)}
      Nth(k) == CHOOSE j \in invoked : Cardinality({x \in invoked : x < j}) = k - 1 IN
  [call EXCEPT
     !.monLog = @ \o [k \in 1..Cardinality(invoked) |->
                        <<MonitorAt(monitors, Nth(k)), n,
                          IF Assigned(Nth(k) - 1) THEN Tampered ELSE call.envs[n].data>>],
     !.pendingMonitors = {j \in invoked : outcomes[j] = "async"},
     !.envs = IF Assigned(Len(monitors)) THEN [@ EXCEPT ![n].data = Tampered] ELSE @]

\* The promise an async monitor returned settles, after notifyMonitors has
\* gone on: fulfilled, or rejected with nothing handling the rejection.
MonitorSettle(c, j, how) ==
  /\ j \in calls[c].pendingMonitors
  /\ calls' = [calls EXCEPT ![c] =
       [@ EXCEPT !.pendingMonitors = @ \ {j},
                 !.unhandled = IF how = "reject" THEN @ \cup {j} ELSE @]]
  /\ UNCHANGED <<config, requestTransforms, responseTransforms, monitors, signals, snapshot,
                 lastReturn>>

\* After the last response transform: notify the monitors and return the
\* envelope (`return apiResponse` / `return errorResponse`).
NotifyAndReturn(c, outcomes) ==
  /\ calls[c].pc = "responseTransforms"
  /\ calls[c].i > Len(IteratedArray(calls[c].iterated, responseTransforms))
  /\ calls' = [calls EXCEPT ![c] =
       [notifyMonitors([calls[c] EXCEPT !.beforeMonitors = <<calls[c].envs[Len(calls[c].envs)]>>],
                       outcomes)
          EXCEPT !.pc = "done", !.result = "resolved", !.returned = Len(calls[c].envs),
                 !.outcomes = outcomes,
                 !.stages = @ \o <<"Monitoring", "Done">>]]
  /\ UNCHANGED <<config, requestTransforms, responseTransforms, monitors, signals, snapshot, lastReturn>>

\* ---------------------------------------------------------- entry points
get(c, url, params, cfg) == request(c, "GET", url, params, cfg)
post(c, url, data, cfg) == request(c, "POST", url, data, cfg)
put(c, url, data, cfg) == request(c, "PUT", url, data, cfg)
patch(c, url, data, cfg) == request(c, "PATCH", url, data, cfg)
deleteRequest(c, url, params, cfg) == request(c, "DELETE", url, params, cfg)
head(c, url, params, cfg) == request(c, "HEAD", url, params, cfg)
link(c, url, params, cfg) == request(c, "LINK", url, params, cfg)
unlink(c, url, params, cfg) == request(c, "UNLINK", url, params, cfg)

\* any(config): method defaults to GET, url to '/'.
any(c, cfg) ==
  LET method == IF cfg.method = "" THEN "GET" ELSE cfg.method
      url == IF cfg.url = <<>> THEN <<"/">> ELSE cfg.url
      dataOrParams == IF shouldHaveBody(method) THEN cfg.data ELSE cfg.params
  IN  request(c, method, url, dataOrParams, cfg)

\* ------------------------------------------------------------------ inputs
CreateConfigs ==
  {[baseURL |-> <<"https://", "api.example.com">>,
    headers |-> RecordHeaders(<< <<"X-Api-Key", "k1">> >>),
    timeout |-> UndefinedNum]}

Urls == {<<"/", "users">>, <<"/", "connections">>}
QueryArgs == {Mapping("obj:active=true", << <<"active", ScalarParam("true")>> >>)}
BodyArgs == {Data("object", "obj:id=1"), Data("object", "circular")}

RequestConfigs ==
  {EmptyRequestConfig,
   [EmptyRequestConfig EXCEPT !.timeout = 1, !.signal = TRUE],
   [EmptyRequestConfig EXCEPT !.timeout = 0,
      !.headers = RecordHeaders(<< <<"Authorization", "tok">> >>)]}

AnyConfigs ==
  {[EmptyRequestConfig EXCEPT !.method = "propfind", !.url = <<"/", "users">>,
      !.data = Data("string", "depth")],
   [EmptyRequestConfig EXCEPT !.signal = TRUE],
   [EmptyRequestConfig EXCEPT !.method = "post", !.url = <<"/", "users">>,
      !.data = Data("FormData", "form")],
   [EmptyRequestConfig EXCEPT !.method = "delete", !.url = <<"/", "users">>,
      !.params = Mapping("obj:active=true", << <<"active", ScalarParam("true")>> >>)]}

JsonType == [x \in {"content-type"} |-> "application/json; charset=utf-8"]
TextType == [x \in {"content-type"} |-> "text/plain"]

Responses ==
  {[status |-> 200, statusText |-> <<"OK">>, headers |-> JsonType,
    text |-> "{id:1}", readable |-> TRUE],
   [status |-> 404, statusText |-> <<"Not", "Found">>, headers |-> JsonType,
    text |-> "{error}", readable |-> TRUE],
   [status |-> 500, statusText |-> <<"Internal">>, headers |-> TextType,
    text |-> "down", readable |-> FALSE],
   [status |-> 502, statusText |-> <<"Connection", "Refused">>, headers |-> TextType,
    text |-> "down", readable |-> TRUE],
   [status |-> 304, statusText |-> <<>>, headers |-> EmptyHeaders,
    text |-> "", readable |-> TRUE],
   [status |-> 201, statusText |-> <<"Created">>, headers |-> JsonType,
    text |-> "<html>", readable |-> TRUE]}

TransportErrors == {MkError("TypeError", <<"Failed", "to", "fetch">>)}

AbortReasons ==
  {MkError("AbortError", <<"signal", "is", "aborted", "without", "reason">>),
   MkError("Error", <<"user", "left">>)}

\* ------------------------------------------------------------ specification
Init ==
  /\ \E cfg \in CreateConfigs : create(cfg)
  /\ calls = [c \in AllCalls |-> IdleCall]
  /\ signals = [c \in AllCalls |-> FreshSignal]
  /\ snapshot = NoSnapshot
  /\ lastReturn = NoReturn

NoCallStarted == \A c \in AllCalls : calls[c].pc = "idle"

\* The caller registers its transforms and monitors (each a function of its
\* own) before it makes calls, at most MaxRegistered of each kind.
Register ==
  /\ NoCallStarted
  /\ \/ /\ Len(requestTransforms) < MaxRegistered
        /\ addRequestTransform(Len(requestTransforms) + 1)
     \/ /\ Len(responseTransforms) < MaxRegistered
        /\ addResponseTransform(Len(responseTransforms) + 1)
     \/ /\ Len(monitors) < MaxRegistered
        /\ addMonitor(Len(monitors) + 1)

EntryPoint(c) ==
  \/ \E url \in Urls, a \in QueryArgs, cfg \in RequestConfigs : get(c, url, a, cfg)
  \/ \E a \in BodyArgs, cfg \in RequestConfigs : post(c, <<"/", "users">>, a, cfg)
  \/ \E a \in BodyArgs : put(c, <<"/", "users">>, a, EmptyRequestConfig)
  \/ \E a \in BodyArgs : patch(c, <<"/", "users">>, a, EmptyRequestConfig)
  \/ \E a \in QueryArgs : deleteRequest(c, <<"/", "users">>, a, EmptyRequestConfig)
  \/ \E a \in QueryArgs : head(c, <<"/", "users">>, a, EmptyRequestConfig)
  \/ \E a \in QueryArgs : link(c, <<"/", "users">>, a, EmptyRequestConfig)
  \/ \E a \in QueryArgs : unlink(c, <<"/", "users">>, a, EmptyRequestConfig)
  \/ \E cfg \in AnyConfigs : any(c, cfg)

Pipeline(c) ==
  \/ RequestTransformStart(c)
  \/ \E mu \in RequestMutations : RequestTransformReturn(c, mu)
  \/ \E v \in ThrownValues : RequestTransformThrow(c, v)
  \/ Dispatch(c)
  \/ BuildFail(c)
  \/ TimerExpire(c)
  \/ \E r \in AbortReasons : AbortSignal(c, r)
  \/ \E response \in Responses : TransportRespond(c, response)
  \/ \E e \in TransportErrors : TransportFail(c, e)
  \/ \E e \in AbortRejections(calls[c].reason) : TransportAborted(c, e)
  \/ ResponseTransformStart(c)
  \/ ResponseTransformReturn(c)
  \/ \E v \in ThrownValues : ResponseTransformThrow(c, v)
  \/ \E outcomes \in [1..Len(monitors) -> MonitorOutcomes] : NotifyAndReturn(c, outcomes)

Next ==
  \/ Register
  \/ \E c \in Calls : EntryPoint(c)
  \/ \E c \in Calls : Pipeline(c)

Spec == Init /\ [][Next]_vars

\* --------------------------------------- specification: the instance config
\* One call on an instance created with or without a base URL, headers and a
\* timeout. The caller reads the config (and writes to what it got) before
\* the call, and uses the setters while the call is in flight.
BareCreateConfigs == {[baseURL |-> <<>>, headers |-> NoHeaders, timeout |-> 5000]}

InitConfig ==
  /\ \E cfg \in CreateConfigs \cup BareCreateConfigs : create(cfg)
  /\ calls = [c \in AllCalls |-> IdleCall]
  /\ signals = [c \in AllCalls |-> FreshSignal]
  /\ snapshot = NoSnapshot
  /\ lastReturn = NoReturn

OtherBase == <<"https://", "b.example.com">>

InFlight(c) == calls[c].pc \notin {"idle", "done"}

Setters ==
  /\ \E c \in AllCalls : InFlight(c)
  /\ \/ setHeader("X-Trace", "on")
     \/ setHeaders(<< <<"X-Trace", "v2">> >>)
     \/ deleteHeader("X-Api-Key")
     \/ setBaseURL(OtherBase)

ReadConfig ==
  /\ NoCallStarted
  /\ \/ GetConfig
     \/ \E mutation \in SnapshotMutations : MutateSnapshot(mutation)

RegisterRequestTransform ==
  /\ NoCallStarted
  /\ Len(requestTransforms) < MaxRegistered
  /\ addRequestTransform(Len(requestTransforms) + 1)

ConfigRequestConfigs ==
  {EmptyRequestConfig,
   [EmptyRequestConfig EXCEPT !.timeout = 0, !.signal = TRUE],
   [EmptyRequestConfig EXCEPT !.timeout = 1,
      !.headers = RecordHeaders(<< <<"Authorization", "tok">> >>)]}

OkResponse ==
  [status |-> 200, statusText |-> <<"OK">>, headers |-> JsonType,
   text |-> "{id:1}", readable |-> TRUE]

AllReturn == [j \in 1..Len(monitors) |-> "return"]

PipelineConfig(c) ==
  \/ RequestTransformStart(c)
  \/ RequestTransformReturn(c, "none")
  \/ Dispatch(c)
  \/ TimerExpire(c)
  \/ \E r \in AbortReasons : AbortSignal(c, r)
  \/ TransportRespond(c, OkResponse)
  \/ \E e \in AbortRejections(calls[c].reason) : TransportAborted(c, e)
  \/ NotifyAndReturn(c, AllReturn)

NextConfig ==
  \/ RegisterRequestTransform
  \/ Setters
  \/ ReadConfig
  \/ \E a \in QueryArgs, cfg \in ConfigRequestConfigs : get("c1", <<"/", "users">>, a, cfg)
  \/ PipelineConfig("c1")

SpecConfig == InitConfig /\ [][NextConfig]_vars

\* ------------------------------------ specification: the registration lists
\* One call; the caller registers before the call, and adds, removes and
\* clears transforms and monitors while the call is suspended (in an awaited
\* transform or in the transport). Between the return of a transform and the
\* loop's next step no other code runs.
Suspended(c) == calls[c].pc \in {"requestTransform", "fetching", "responseTransform"}
Range(list) == {list[k] : k \in DOMAIN list}
Ids == 1..MaxRegistered

RegistryOps ==
  /\ \E c \in AllCalls : Suspended(c)
  /\ \/ \E t \in Ids \ Range(requestTransforms) : addRequestTransform(t)
     \/ \E t \in Range(requestTransforms) : removeRequestTransform(t)
     \/ requestTransforms # <<>> /\ clearRequestTransforms
     \/ \E t \in Ids \ Range(responseTransforms) : addResponseTransform(t)
     \/ \E t \in Range(responseTransforms) : removeResponseTransform(t)
     \/ responseTransforms # <<>> /\ clearResponseTransforms
     \/ \E m \in Ids \ Range(monitors) : addMonitor(m)
     \/ \E m \in Range(monitors) : removeMonitor(m)
     \/ monitors # <<>> /\ clearMonitors

PipelineRegistry(c) ==
  \/ RequestTransformStart(c)
  \/ RequestTransformReturn(c, "none")
  \/ Dispatch(c)
  \/ TransportRespond(c, OkResponse)
  \/ ResponseTransformStart(c)
  \/ ResponseTransformReturn(c)
  \/ NotifyAndReturn(c, AllReturn)

NextRegistry ==
  \/ Register
  \/ RegistryOps
  \/ \E a \in QueryArgs : get("c1", <<"/", "users">>, a, [EmptyRequestConfig EXCEPT !.timeout = 0])
  \/ PipelineRegistry("c1")

SpecRegistry == Init /\ [][NextRegistry]_vars

\* ------------------------------------------- specification: concurrent calls
\* Two calls of the same instance, each started at any moment, their steps
\* interleaved at every suspension point.
ConcurrentRequestConfigs ==
  {[EmptyRequestConfig EXCEPT !.timeout = 0],
   [EmptyRequestConfig EXCEPT !.timeout = 0,
      !.headers = RecordHeaders(<< <<"Authorization", "tok">> >>)]}

PipelineConcurrent(c) ==
  \/ RequestTransformStart(c)
  \/ \E mu \in RequestMutations : RequestTransformReturn(c, mu)
  \/ Dispatch(c)
  \/ TransportRespond(c, OkResponse)
  \/ ResponseTransformStart(c)
  \/ ResponseTransformReturn(c)
  \/ NotifyAndReturn(c, AllReturn)

NextConcurrent ==
  \/ Register
  \/ \E c \in AllCalls, a \in QueryArgs, cfg \in ConcurrentRequestConfigs :
        get(c, <<"/", "users">>, a, cfg)
  \/ \E c \in AllCalls : PipelineConcurrent(c)

SpecConcurrent == Init /\ [][NextConcurrent]_vars

\* ================================================================ claims
Count(seq, x) == Cardinality({k \in DOMAIN seq : seq[k] = x})
Firsts(log) == [k \in DOMAIN log |-> log[k][1]]
IsPrefix(a, b) == Len(a) <= Len(b) /\ \A k \in DOMAIN a : a[k] = b[k]
Settled(c) == calls[c].pc = "done"
NonNull(e) == e.kind \notin {"none", "null"}

\* C1: every call's promise resolves with an envelope and never rejects,
\* whatever the outcome (transport success or failure, a throwing request
\* transform, a throwing response transform).
C1_NeverRejects ==
  \A c \in Calls :
    /\ calls[c].result # "rejected"
    /\ Settled(c) => calls[c].result = "resolved" /\ calls[c].envs # <<>>

\* C2: every envelope the pipeline builds has ok and problem=null, or not ok
\* and a taxonomy value as problem; and originalError is non-null iff not ok.
WellFormed(e) ==
  /\ \/ e.ok /\ e.problem = JsNull
     \/ ~e.ok /\ e.problem \in PROBLEM_CODE
  /\ NonNull(e.originalError) <=> ~e.ok

C2_EnvelopeWellFormed ==
  \A c \in Calls : \A k \in DOMAIN calls[c].envs : WellFormed(calls[c].envs[k])

\* C3: when a response transform throws during a call, the call still
\* resolves and every registered monitor is invoked exactly once, with a
\* well-formed envelope.
C3_MonitorsOnceAfterThrow ==
  \A c \in Calls :
    (Settled(c) /\ Count(calls[c].throws, "response") > 0) =>
      /\ calls[c].result = "resolved"
      /\ \A j \in DOMAIN monitors : Count(Firsts(calls[c].monLog), monitors[j]) = 1
      /\ \A k \in DOMAIN calls[c].monLog :
           WellFormed(calls[c].envs[calls[c].monLog[k][2]])

\* The transport invocation of c failed with the reason the timer cancelled
\* the internal controller with.
TimedOut(c) ==
  /\ calls[c].aborted /\ calls[c].reason = TimeoutReason
  /\ calls[c].fetchError = TimeoutReason

\* C4: a call whose timer expires before the transport resolves yields an
\* envelope with ok=false, problem=TIMEOUT, data undefined, status undefined.
C4_TimeoutEnvelope ==
  \A c \in Calls :
    TimedOut(c) =>
      LET e == calls[c].envs[1] IN
      /\ ~e.ok /\ e.problem = "TIMEOUT_ERROR"
      /\ e.data = Undefined /\ e.status = UndefinedNum

\* The transport invocation of c failed with the reason the caller's signal
\* was cancelled with, while the call was in flight.
Cancelled(c) ==
  /\ signals[c].aborted
  /\ calls[c].aborted /\ calls[c].reason = signals[c].reason
  /\ calls[c].fetchError \in AbortRejections(calls[c].reason)

\* C5: cancelling the supplied signal while the transport is in flight
\* yields ok=false and problem=CANCELLED.
C5_CancelledEnvelope ==
  \A c \in Calls :
    Cancelled(c) =>
      LET e == calls[c].envs[1] IN ~e.ok /\ e.problem = "CANCEL_ERROR"

\* C6: a response with status 400..499 yields ok=false, problem=CLIENT, that
\* status and the parsed body; 500..599 yields SERVER; whatever the method,
\* the URL and the status text are.
C6_StatusDecides ==
  \A c \in Calls : \A k \in DOMAIN calls[c].envs :
    LET e == calls[c].envs[k]
        s == e.response.status IN
    /\ (s >= 400 /\ s <= 499) =>
         /\ ~e.ok /\ e.problem = "CLIENT_ERROR" /\ e.status = s
         /\ e.data = parseResponseBody(e.response)
    /\ (s >= 500 /\ s <= 599) =>
         /\ ~e.ok /\ e.problem = "SERVER_ERROR" /\ e.status = s
         /\ e.data = parseResponseBody(e.response)

\* C7: the request transforms of a call run in registration order, one at a
\* time, on one RequestConfig: each sees the mutations of all those before it.
C7_RequestTransformsSequential ==
  \A c \in Calls :
    LET log == calls[c].reqLog IN
    /\ IsPrefix(Firsts(log), requestTransforms)
    /\ Cardinality(calls[c].running) <= 1
    /\ \A k \in DOMAIN log : log[k][2] = [j \in 1..(k - 1) |-> requestTransforms[j]]
    /\ calls[c].pc = "fetching" => calls[c].config.marks = requestTransforms

C7_Witness ==
  \E c \in Calls :
    /\ Len(calls[c].reqLog) = 2
    /\ calls[c].reqLog[2][2] = <<requestTransforms[1]>>
    /\ calls[c].pc = "fetching"

\* C8: the response transforms of a call run in registration order, all on
\* one envelope instance, which is the one the monitors get and the caller
\* is returned, with every mutation the transforms made.
C8_ResponseTransformsOneEnvelope ==
  \A c \in Calls :
    LET log == calls[c].respLog IN
    /\ IsPrefix(Firsts(log), responseTransforms)
    /\ \A k \in DOMAIN log : log[k][2] = log[1][2]
    /\ calls[c].result = "resolved" =>
         /\ Firsts(log) = responseTransforms
         /\ \A k \in DOMAIN log : log[k][2] = Len(calls[c].envs)
         /\ \A k \in DOMAIN calls[c].monLog : calls[c].monLog[k][2] = Len(calls[c].envs)
         /\ calls[c].envs[Len(calls[c].envs)].marks = responseTransforms

\* The case-insensitive merge of header sources in increasing precedence.
PrecedenceMerge(srcs) ==
  LET maps == [i \in DOMAIN srcs |-> NewHeaders(srcs[i])]
      keys == UNION {DOMAIN maps[i] : i \in DOMAIN maps}
      Last(k) == CHOOSE i \in DOMAIN maps :
                   k \in DOMAIN maps[i] /\ \A j \in DOMAIN maps : j > i => k \notin DOMAIN maps[j]
  IN  [k \in keys |-> maps[Last(k)][k]]

\* C9: the headers handed to the transport are the merge of the default,
\* instance and per-call headers, the later source winning key by key and
\* the keys of the earlier sources kept.
C9_HeadersMerged ==
  \A c \in Calls : \A k \in DOMAIN calls[c].sent :
    LET req == calls[c].sent[k]
        defaults == IF req.body.t \in {"FormData", "URLSearchParams"} THEN NoHeaders
                    ELSE RecordHeaders(DEFAULT_HEADERS) IN
    req.headers = PrecedenceMerge(<<defaults, HeadersObject(config.headers),
                                    Deref(calls[c].config.headers)>>)

\* C10: a call invokes the transport once when it reaches the Dispatching
\* stage and never otherwise: at most once, whatever happens afterwards.
C10_OneTransportAttempt ==
  \A c \in Calls :
    /\ Len(calls[c].sent) <= 1
    /\ Len(calls[c].sent) = Count(calls[c].stages, "Dispatching")

C10_Witness ==
  \E c \in Calls :
    /\ Settled(c)
    /\ Len(calls[c].sent) = 1
    /\ Count(calls[c].throws, "response") > 0

\* C11: when a request transform throws during a call, the transport is not
\* invoked for that call, and every registered response transform and then
\* every registered monitor is invoked exactly once, with the failure
\* envelope, before the call returns it.
C11_RequestThrowStillNotifies ==
  \A c \in Calls :
    (Settled(c) /\ Count(calls[c].throws, "request") > 0) =>
      /\ calls[c].sent = <<>>
      /\ calls[c].result = "resolved"
      /\ Firsts(calls[c].respLog) = responseTransforms
      /\ Firsts(calls[c].monLog) = monitors
      /\ \A k \in DOMAIN calls[c].respLog : calls[c].respLog[k][2] = calls[c].returned
      /\ \A k \in DOMAIN calls[c].monLog : calls[c].monLog[k][2] = calls[c].returned
      /\ calls[c].returned \in DOMAIN calls[c].envs
      /\ ~calls[c].envs[calls[c].returned].ok

\* C12: the envelope built for a value v that a request or response transform
\* threw has ok=false, problem=UNKNOWN and originalError = v, whatever the
\* name and message of v.
C12_TransformThrowUnknown ==
  \A c \in Calls : \A k \in DOMAIN calls[c].thrown :
    LET th == calls[c].thrown[k] IN
    th.caught =>
      LET e == calls[c].envs[th.env] IN
      ~e.ok /\ e.problem = "UNKNOWN_ERROR" /\ e.originalError = th.v

\* C13: when a monitor throws, the monitors registered after it are still
\* invoked, each monitor exactly once, the call resolves, and the envelope it
\* returns is the instance the monitors were given.
C13_MonitorThrowCaught ==
  \A c \in Calls :
    (Settled(c) /\ \E j \in DOMAIN calls[c].outcomes : calls[c].outcomes[j] = "throw") =>
      /\ calls[c].result = "resolved"
      /\ Firsts(calls[c].monLog) = monitors
      /\ calls[c].returned = Len(calls[c].envs)
      /\ \A k \in DOMAIN calls[c].monLog : calls[c].monLog[k][2] = calls[c].returned

C13_Witness ==
  \E c \in Calls :
    /\ Settled(c)
    /\ Len(monitors) = 2
    /\ calls[c].outcomes[1] = "throw"
    /\ Len(calls[c].monLog) = 2

\* C14: whatever a monitor does, assigning to fields of the envelope
\* included, the envelope the caller is returned, and the one each later
\* monitor sees, has the field values it had after the last response
\* transform.
C14_MonitorsCannotAlter ==
  \A c \in Calls :
    calls[c].result = "resolved" =>
      /\ calls[c].envs[calls[c].returned] = calls[c].beforeMonitors[1]
      /\ \A k \in DOMAIN calls[c].monLog :
           calls[c].monLog[k][3] = calls[c].beforeMonitors[1].data

\* C15: no mutation of the value the config getter returned, or of anything
\* reachable from it, changes the instance's base URL, timeout or headers.
C15_SnapshotIsACopy ==
  [][(\E mutation \in SnapshotMutations : MutateSnapshot(mutation)) => config' = config]_vars

\* C16: no in-place mutation a request transform makes to the RequestConfig
\* it is given, its header set included, changes the instance's base URL,
\* default headers or timeout.
C16_ConfigNotAliased ==
  [][(\E c \in AllCalls, mu \in RequestMutations : RequestTransformReturn(c, mu))
       => config' = config]_vars

\* C19: the URL, headers and timeout a call hands to the transport are those
\* the instance's base URL, headers and timeout at the start of the call
\* give, whatever setter ran while the call was in its request transforms.
C19_ConfigReadAtStart ==
  \A c \in AllCalls : \A k \in DOMAIN calls[c].sent :
    LET call == calls[c]
        cfg == call.config
        inst == call.atStart[1].config
        timeout == IF cfg.timeout # UndefinedNum THEN cfg.timeout ELSE inst.timeout IN
    /\ call.sent[k].url =
         buildUrl(IF cfg.baseURL # <<>> THEN cfg.baseURL ELSE inst.baseURL,
                  call.url, cfg.params.entries)
    /\ call.sent[k].headers =
         NewHeaders(IF cfg.headers.t = "instance" THEN HeadersObject(inst.headers)
                    ELSE cfg.headers)
    /\ call.timerMs = IF timeout = UndefinedNum THEN DEFAULT_TIMEOUT ELSE timeout

\* C20 (as stated): with an effective timeout of zero, or with no timeout set
\* on the instance or the call, no timer is armed and the internal
\* controller is never cancelled with the timeout reason.
C20_NoTimerWhenZeroOrUnset ==
  \A c \in AllCalls :
    (calls[c].sent # <<>> /\ calls[c].config.timeout \in {0, UndefinedNum}) =>
      /\ calls[c].timerMs = 0
      /\ ~calls[c].timerArmed
      /\ calls[c].reason # TimeoutReason

\* C20 (amended): with an effective timeout of zero no timer is armed and the
\* internal controller is never cancelled with the timeout reason; with no
\* timeout set on the instance or the call, the timer is armed with
\* DEFAULT_TIMEOUT; else it is armed with the effective timeout.
C20_TimerArmedUnlessZero ==
  \A c \in AllCalls :
    calls[c].sent # <<>> =>
      LET timeout == calls[c].config.timeout IN
      /\ timeout = 0 =>
           /\ calls[c].timerMs = 0 /\ ~calls[c].timerArmed
           /\ calls[c].reason # TimeoutReason
      /\ timeout = UndefinedNum => calls[c].timerMs = 10000
      /\ timeout > 0 => calls[c].timerMs = timeout

C20_Witness ==
  \E c \in AllCalls :
    /\ calls[c].config.timeout = 0
    /\ calls[c].atStart[1].config.timeout = 5000
    /\ calls[c].sent # <<>>
    /\ calls[c].aborted

\* C18: the request transforms, response transforms and monitors a call runs
\* are those registered when the call started, each once, whatever is added,
\* removed or cleared while the call is suspended.
C18_ListsReadAtStart ==
  \A c \in AllCalls :
    calls[c].atStart # <<>> =>
      LET start == calls[c].atStart[1] IN
      /\ IsPrefix(Firsts(calls[c].reqLog), start.requestTransforms)
      /\ IsPrefix(Firsts(calls[c].respLog), start.responseTransforms)
      /\ calls[c].sent # <<>> => Firsts(calls[c].reqLog) = start.requestTransforms
      /\ calls[c].result = "resolved" =>
           /\ Firsts(calls[c].respLog) = start.responseTransforms
           /\ Firsts(calls[c].monLog) = start.monitors

\* The header set of c's RequestConfig, as c reads it now.
HeaderView(c) == NewHeaders(Deref(calls[c].config.headers))

\* A header set shows no request id, or the one the transforms of c set.
OwnRequestId(h, c) == "x-request-id" \in DOMAIN h => h["x-request-id"] = c

\* C17: while two calls are in flight together, what a transform of one call
\* wrote to its RequestConfig or envelope is visible neither in the other
\* call's RequestConfig, nor in what the other call sends, nor in the other
\* call's envelope.
C17_CallsIsolated ==
  (\A c \in AllCalls : InFlight(c)) =>
    \A c \in AllCalls :
      /\ OwnRequestId(HeaderView(c), c)
      /\ \A k \in DOMAIN calls[c].sent : OwnRequestId(calls[c].sent[k].headers, c)
      /\ \A k \in DOMAIN calls[c].envs :
           IsPrefix(calls[c].envs[k].marks, calls[c].atStart[1].responseTransforms)

\* ------------------------------- specification: the problem classifier
\* classifyProblem applied to one status and one failure object.
MaxStatus == 600
Statuses == {UndefinedNum} \cup 0..MaxStatus

\* The values fetch rejects with once its signal is aborted by the timer or
\* by the caller.
AbortFailures == UNION {AbortRejections(r) : r \in AbortReasons \cup {TimeoutReason}}

ClassifyErrors ==
  {NoError, NullValue, PlainValue} \cup AbortFailures \cup TransportErrors \cup
  {MkError("TimeoutError", <<"The", "operation", "was", "aborted", "due", "to", "timeout">>),
   MkError("Error", <<"Aborted">>),
   MkError("TypeError", <<"network", "error">>),
   MkError("TypeError", <<"Connection", "Refused">>),
   MkError("Error", <<"connect", "ECONNREFUSED">>),
   MkError("Error", <<"boom">>)}

\* The state of the instance before any call.
Fresh ==
  /\ \E cfg \in CreateConfigs : create(cfg)
  /\ calls = [c \in AllCalls |-> IdleCall]
  /\ signals = [c \in AllCalls |-> FreshSignal]
  /\ snapshot = NoSnapshot

InitClassify ==
  /\ Fresh
  /\ \E status \in Statuses, error \in ClassifyErrors :
       lastReturn = Applied("classifyProblem", <<status, error>>)

Classify ==
  /\ lastReturn.op = "classifyProblem"
  /\ lastReturn.result = <<>>
  /\ lastReturn' = Returned("classifyProblem", lastReturn.args,
                            classifyProblem(lastReturn.args[1], lastReturn.args[2]))
  /\ UNCHANGED <<config, requestTransforms, responseTransforms, monitors, calls, signals,
                 snapshot>>

NextClassify == Classify

SpecClassify == InitClassify /\ [][NextClassify]_vars

\* classifyProblem has returned.
Classified == lastReturn.op = "classifyProblem" /\ lastReturn.result # <<>>

\* C23: with no failure object the classifier returns CLIENT exactly for the
\* statuses 400..499, SERVER exactly for 500..599, NONE exactly for 200..299,
\* and UNKNOWN for every other status and for an absent status.
C23_StatusRanges ==
  (Classified /\ lastReturn.args[2] = NoError) =>
    LET s == lastReturn.args[1]
        r == lastReturn.result[1] IN
    /\ r = "CLIENT_ERROR" <=> s \in 400..499
    /\ r = "SERVER_ERROR" <=> s \in 500..599
    /\ r = "NONE" <=> s \in 200..299
    /\ r = "UNKNOWN_ERROR" <=> s \notin (200..299) \cup (400..599)
    /\ s = UndefinedNum => r = "UNKNOWN_ERROR"

\* Status 499, the last of the client range, without a failure object.
C23_Witness ==
  /\ Classified
  /\ lastReturn.args[1] = 499
  /\ lastReturn.args[2] = NoError
  /\ lastReturn.result[1] = "CLIENT_ERROR"

\* A failure object indicates an abort: it is what an aborted fetch rejects
\* with, or it is named AbortError, or its message says "aborted".
IndicatesAbort(e) ==
  \/ e \in AbortFailures
  \/ e.kind = "error" /\ (e.name = "AbortError" \/ includes(toLowerCase(e.message), "aborted"))

Mentions(e, kw) == e.kind = "error" /\ includes(toLowerCase(e.message), kw)

\* The rules of the classifier in their order: abort, network, connection,
\* status, unknown.
RuleOrder(s, e) ==
  IF IndicatesAbort(e)
    THEN IF Mentions(e, "timeout") THEN "TIMEOUT_ERROR" ELSE "CANCEL_ERROR"
  ELSE IF e.kind = "error" /\ e.name = "TypeError"
            /\ (Mentions(e, "fetch") \/ Mentions(e, "network"))
    THEN "NETWORK_ERROR"
  ELSE IF Mentions(e, "connection") \/ Mentions(e, "refused") THEN "CONNECTION_ERROR"
  ELSE IF s \in 400..499 THEN "CLIENT_ERROR"
  ELSE IF s \in 500..599 THEN "SERVER_ERROR"
  ELSE IF s \in 200..299 THEN "NONE"
  ELSE "UNKNOWN_ERROR"

\* C24: for every status, present or absent, and every failure object that
\* indicates an abort the classifier returns TIMEOUT when the abort reason
\* mentions a timeout and CANCELLED otherwise, never a status-derived code;
\* the rules apply in the order abort, network, connection, status, unknown,
\* the first that matches deciding.
C24_AbortFirst ==
  Classified =>
    LET s == lastReturn.args[1]
        e == lastReturn.args[2]
        r == lastReturn.result[1] IN
    /\ IndicatesAbort(e) => r \in {"TIMEOUT_ERROR", "CANCEL_ERROR"}
    /\ r = RuleOrder(s, e)

\* ------------------------------ specification: the three registration lists
\* The caller adds, removes and clears with no call in progress; the same
\* function may be registered more than once, and removed when it is not
\* registered.
Functions == {1, 2}

NextLists ==
  \/ \E f \in Functions : Len(requestTransforms) <= MaxRegistered /\ addRequestTransform(f)
  \/ \E f \in Functions : Len(responseTransforms) <= MaxRegistered /\ addResponseTransform(f)
  \/ \E f \in Functions : Len(monitors) <= MaxRegistered /\ addMonitor(f)
  \/ \E f \in Functions : removeRequestTransform(f)
  \/ \E f \in Functions : removeResponseTransform(f)
  \/ \E f \in Functions : removeMonitor(f)
  \/ clearRequestTransforms
  \/ clearResponseTransforms
  \/ clearMonitors

SpecLists == Init /\ [][NextLists]_vars

\* new is old without its first occurrence of f, the others in their order.
DeletesFirst(old, new, f) ==
  \E k \in DOMAIN old :
    /\ old[k] = f
    /\ \A j \in 1..(k - 1) : old[j] # f
    /\ Len(new) = Len(old) - 1
    /\ \A j \in DOMAIN new : new[j] = IF j < k THEN old[j] ELSE old[j + 1]

\* What remove(f) does to a list and returns.
RemoveContract(old, new, f) ==
  IF \E k \in DOMAIN old : old[k] = f
    THEN DeletesFirst(old, new, f) /\ lastReturn'.result = <<TRUE>>
    ELSE new = old /\ lastReturn'.result = <<FALSE>>

\* C25: for each of the three lists, add appends at the end; remove(f) of a
\* registered f deletes its first occurrence only, keeps the order of the
\* others and returns true; remove(f) of an f that is not registered returns
\* false and leaves the list as it was; clear empties its list; and each of
\* them leaves the other two lists unchanged.
C25_ListOperations ==
  [][\A f \in Functions :
       /\ addRequestTransform(f) =>
            /\ requestTransforms' = requestTransforms \o <<f>>
            /\ UNCHANGED <<responseTransforms, monitors>>
       /\ addResponseTransform(f) =>
            /\ responseTransforms' = responseTransforms \o <<f>>
            /\ UNCHANGED <<requestTransforms, monitors>>
       /\ addMonitor(f) =>
            /\ monitors' = monitors \o <<f>>
            /\ UNCHANGED <<requestTransforms, responseTransforms>>
       /\ removeRequestTransform(f) =>
            /\ RemoveContract(requestTransforms, requestTransforms', f)
            /\ UNCHANGED <<responseTransforms, monitors>>
       /\ removeResponseTransform(f) =>
            /\ RemoveContract(responseTransforms, responseTransforms', f)
            /\ UNCHANGED <<requestTransforms, monitors>>
       /\ removeMonitor(f) =>
            /\ RemoveContract(monitors, monitors', f)
            /\ UNCHANGED <<requestTransforms, responseTransforms>>
       /\ clearRequestTransforms =>
            requestTransforms' = <<>> /\ UNCHANGED <<responseTransforms, monitors>>
       /\ clearResponseTransforms =>
            responseTransforms' = <<>> /\ UNCHANGED <<requestTransforms, monitors>>
       /\ clearMonitors =>
            monitors' = <<>> /\ UNCHANGED <<requestTransforms, responseTransforms>>]_vars

\* A remove has returned true and left a function that is still registered
\* twice, the other two lists holding their functions.
C25_Witness ==
  /\ lastReturn = Returned("remove", <<>>, TRUE)
  /\ requestTransforms = <<2, 1, 2>>
  /\ responseTransforms = <<1, 1>>
  /\ monitors = <<2>>

\* ------------------------------------ specification: the URL builder
\* buildUrl applied to one base, one target and one query mapping, and
\* buildQueryString applied to one query mapping.
BaseUrls ==
  {<<>>,
   <<"https://", "api.example.com">>,
   <<"https://", "api.example.com", "/">>,
   <<"https://", "api.example.com", "/", "v1", "/", "/">>,
   <<"https://", "proxy.example.com", "/", "?", "key", "=", "1">>}

Targets ==
  {<<"/", "users", "/", "1">>,
   <<"users">>,
   <<"/", "search", "?", "q", "=", "1">>,
   <<>>,
   <<"https://", "other.example.com", "/", "x">>,
   <<"http://", "other.example.com", "/", "x", "?", "y", "=", "1">>,
   <<"HTTPS://", "OTHER.EXAMPLE.COM", "/", "x">>,
   <<"ftp://", "files.example.com", "/", "f">>}

QueryMappings ==
  {<<>>,
   << <<"active", ScalarParam("true")>> >>,
   << <<"tag", ListParam(<<"a", "b">>)>> >>,
   << <<"a", NullParam>>, <<"b", ScalarParam("1")>> >>,
   << <<"x", NullParam>> >>,
   << <<"tag", ListParam(<<>>)>> >>,
   << <<"b", ScalarParam("2")>>, <<"a", ScalarParam("1")>> >>,
   << <<"q", ScalarParam("a b")>> >>,
   << <<"n", NullParam>>, <<"tag", ListParam(<<"a", "b">>)>>, <<"z", ScalarParam("1")>> >>}

InitUrl ==
  /\ Fresh
  /\ \/ \E baseURL \in BaseUrls, url \in Targets, params \in QueryMappings :
          lastReturn = Applied("buildUrl", <<baseURL, url, params>>)
     \/ \E params \in QueryMappings :
          lastReturn = Applied("buildQueryString", <<params>>)

BuildUrl ==
  /\ lastReturn.op = "buildUrl"
  /\ lastReturn.result = <<>>
  /\ lastReturn' = Returned("buildUrl", lastReturn.args,
                            buildUrl(lastReturn.args[1], lastReturn.args[2], lastReturn.args[3]))
  /\ UNCHANGED <<config, requestTransforms, responseTransforms, monitors, calls, signals,
                 snapshot>>

BuildQueryString ==
  /\ lastReturn.op = "buildQueryString"
  /\ lastReturn.result = <<>>
  /\ lastReturn' = Returned("buildQueryString", lastReturn.args,
                            buildQueryString(lastReturn.args[1]))
  /\ UNCHANGED <<config, requestTransforms, responseTransforms, monitors, calls, signals,
                 snapshot>>

NextUrl ==
  \/ BuildUrl
  \/ BuildQueryString

SpecUrl == InitUrl /\ [][NextUrl]_vars

\* buildUrl / buildQueryString has returned.
UrlBuilt == lastReturn.op = "buildUrl" /\ lastReturn.result # <<>>
QueryBuilt == lastReturn.op = "buildQueryString" /\ lastReturn.result # <<>>

\* A target that carries a scheme prefix.
HasScheme(url) == url # <<>> /\ Head(url) \in {"http://", "https://", "HTTPS://", "ftp://"}

\* u followed by the query string q, joined with '?', or with '&' when u
\* holds a '?' already; u itself when q is empty.
Joined(u, q) ==
  IF q = <<>> THEN u
  ELSE u \o <<IF \E k \in DOMAIN u : u[k] = "?" THEN "&" ELSE "?">> \o q

\* The base without its trailing slash, then the target with a leading
\* slash.
Concatenated(baseURL, url) ==
  (IF baseURL # <<>> /\ baseURL[Len(baseURL)] = "/"
     THEN SubSeq(baseURL, 1, Len(baseURL) - 1) ELSE baseURL)
  \o (IF url # <<>> /\ url[1] = "/" THEN url ELSE <<"/">> \o url)

\* C28 as stated: for a target that is not an absolute URL the built URL is
\* the base with its trailing slash stripped, followed by the target with a
\* single leading slash enforced, followed by the query string joined with
\* '?' (or '&' when a '?' is already present).
C28_RelativeTarget ==
  (UrlBuilt /\ ~HasScheme(lastReturn.args[2])) =>
    lastReturn.result[1] =
      Joined(Concatenated(lastReturn.args[1], lastReturn.args[2]),
             buildQueryString(lastReturn.args[3]))

\* C28 (amended): for a target that is not an absolute URL and a base URL
\* that is set, the built URL is the base with its trailing slash stripped,
\* followed by the target with a single leading slash enforced, followed by
\* the query string joined with '?' (or '&' when a '?' is already present);
\* with no base URL the target is used as it is, followed by the query
\* string joined the same way.
C28_RelativeTargetWithBase ==
  (UrlBuilt /\ ~HasScheme(lastReturn.args[2])) =>
    lastReturn.result[1] =
      Joined(IF lastReturn.args[1] # <<>>
               THEN Concatenated(lastReturn.args[1], lastReturn.args[2])
               ELSE lastReturn.args[2],
             buildQueryString(lastReturn.args[3]))

\* Base https://api.example.com, target /users/1, query {active: true}.
C28_Witness ==
  /\ UrlBuilt
  /\ lastReturn.args[1] = <<"https://", "api.example.com">>
  /\ lastReturn.args[2] = <<"/", "users", "/", "1">>
  /\ lastReturn.args[3] = << <<"active", ScalarParam("true")>> >>
  /\ lastReturn.result[1] =
       <<"https://", "api.example.com", "/", "users", "/", "1", "?", "active", "=", "true">>

\* C29: for a target that is already an absolute URL (it carries a scheme
\* prefix) the built URL is the target verbatim, whatever the base URL, with
\* the serialized query appended using '&' if the target already contains a
\* query string and '?' otherwise, and unchanged when the query is empty.
C29_AbsoluteTarget ==
  (UrlBuilt /\ HasScheme(lastReturn.args[2])) =>
    lastReturn.result[1] = Joined(lastReturn.args[2], buildQueryString(lastReturn.args[3]))

\* The pairs a query mapping stands for: none for null/undefined, one per
\* element of a list, one for any other value.
PairsOf(entry) ==
  IF entry[2].t = "null" THEN <<>>
  ELSE IF entry[2].t = "list"
    THEN [k \in 1..Len(entry[2].items) |-> <<entry[1], entry[2].items[k]>>]
  ELSE << <<entry[1], entry[2].v>> >>

RECURSIVE Flat(_)
Flat(params) == IF params = <<>> THEN <<>> ELSE PairsOf(Head(params)) \o Flat(Tail(params))

PipelineMonitors(c) ==
  \/ RequestTransformStart(c)
  \/ RequestTransformReturn(c, "none")
  \/ Dispatch(c)
  \/ TransportRespond(c, OkResponse)
  \/ ResponseTransformStart(c)
  \/ ResponseTransformReturn(c)
  \/ \E outcomes \in [1..Len(monitors) -> AsyncMonitorOutcomes] : NotifyAndReturn(c, outcomes)
  \/ \E j \in 1..Len(monitors), how \in {"fulfil", "reject"} : MonitorSettle(c, j, how)

NextMonitors ==
  \/ Register
  \/ \E a \in QueryArgs : get("c1", <<"/", "users">>, a, [EmptyRequestConfig EXCEPT !.timeout = 0])
  \/ PipelineMonitors("c1")

SpecMonitors == Init /\ [][NextMonitors]_vars

\* The monitors of c ran after its response transforms, in registration
\* order.
MonitorsInOrder(c) ==
  /\ calls[c].running = {}
  /\ Firsts(calls[c].respLog) = responseTransforms
  /\ Firsts(calls[c].monLog) = monitors

\* C33 as stated: monitors are invoked in registration order, only after
\* every response transform has completed, and each monitor, an asynchronous
\* one included, has completed before the next starts and before the call's
\* promise resolves, a failure of an asynchronous monitor being caught.
C33_MonitorsAwaited ==
  \A c \in Calls :
    /\ calls[c].result = "pending" => calls[c].monLog = <<>>
    /\ calls[c].result = "resolved" =>
         /\ MonitorsInOrder(c)
         /\ calls[c].pendingMonitors = {}
         /\ calls[c].unhandled = {}

\* C33 (amended): monitors are invoked in registration order, only after
\* every response transform has completed, and every monitor has been
\* invoked before the call's promise resolves, a synchronous failure of a
\* monitor being caught; monitors are not awaited: only a monitor that
\* completes asynchronously may complete after the next one starts and after
\* the promise resolves, and only its asynchronous failure is not caught.
C33_MonitorsFireAndForget ==
  \A c \in Calls :
    /\ calls[c].result = "pending" => calls[c].monLog = <<>>
    /\ calls[c].result = "resolved" =>
         /\ MonitorsInOrder(c)
         /\ \A j \in calls[c].pendingMonitors \cup calls[c].unhandled :
              calls[c].outcomes[j] = "async"

\* The promise resolved while the first monitor, an async one, had not
\* completed, the second one having thrown.
C33_Witness ==
  \E c \in Calls :
    /\ calls[c].result = "resolved"
    /\ Len(monitors) >= 2
    /\ Len(responseTransforms) >= 1
    /\ calls[c].outcomes[1] = "async"
    /\ calls[c].outcomes[2] = "throw"
    /\ 1 \in calls[c].pendingMonitors

\* ------------------------- specification: transforms that assign fields
\* One GET or POST whose request transforms assign to fields of the
\* RequestConfig or set a header in place.
PipelineTransform(c) ==
  \/ RequestTransformStart(c)
  \/ \E mu \in TransformMutations \cup RequestMutations : RequestTransformReturn(c, mu)
  \/ Dispatch(c)
  \/ TransportRespond(c, OkResponse)
  \/ NotifyAndReturn(c, AllReturn)

NextTransform ==
  \/ RegisterRequestTransform
  \/ \E a \in QueryArgs : get("c1", <<"/", "users">>, a, [EmptyRequestConfig EXCEPT !.timeout = 0])
  \/ post("c1", <<"/", "users">>, Data("object", "obj:id=1"),
          [EmptyRequestConfig EXCEPT !.timeout = 0])
  \/ PipelineTransform("c1")

SpecTransform == Init /\ [][NextTransform]_vars

\* GET, HEAD and DELETE in any case.
BodilessMethods == {"GET", "get", "HEAD", "head", "DELETE", "delete"}

\* C36: every in-place mutation a request transform makes to a field of the
\* RequestConfig (target, method, query mapping, payload, headers, timeout,
\* base URL) is reflected in what is built afterwards and handed to the
\* transport: the URL uses the mutated target, base and query, the body
\* decision and the method use the mutated method, the body uses the mutated
\* payload.
C36_MutationsReflected ==
  \A c \in Calls : \A k \in DOMAIN calls[c].sent :
    LET req == calls[c].sent[k]
        cfg == calls[c].config IN
    /\ req.url = buildUrl(IF cfg.baseURL # <<>> THEN cfg.baseURL ELSE config.baseURL,
                          cfg.url, cfg.params.entries)
    /\ req.method = cfg.method
    /\ req.body = IF cfg.method \in BodilessMethods THEN NoData
                  ELSE prepareRequestBody(cfg.data)
    /\ req.headers = NewHeaders(Deref(cfg.headers))
    /\ calls[c].timerMs = cfg.timeout

\* The transport invocation of call c has completed: fetch was invoked and
\* its promise has settled.
Completed(c) == calls[c].sent # <<>> /\ calls[c].pc # "fetching"

\* C21: once the transport invocation has completed, with a response or with
\* a failure, the timer is disarmed and the listener on the caller's signal
\* is removed, and from then on the internal controller is never cancelled:
\* neither its aborted flag nor its reason changes.
C21_CleanupAfterCompletion ==
  [][\A c \in Calls :
       /\ Completed(c)' => ~calls'[c].timerArmed /\ ~calls'[c].listening
       /\ Completed(c) => /\ calls'[c].aborted = calls[c].aborted
                          /\ calls'[c].reason = calls[c].reason]_vars

\* The caller cancels its signal after the transport invocation completed,
\* and the internal controller stays as it was.
C21_Witness ==
  \E c \in Calls :
    /\ Completed(c)
    /\ signals[c].aborted
    /\ ~calls[c].aborted
    /\ calls[c].timerMs > 0

\* The timeout fetchWithTimeout applies to call c.
EffectiveTimeout(c) == TimerDelay(FetchConfigTimeout(calls[c].config))

\* C22: every call with a positive effective timeout ends in Done, once: the
\* promise of a finished call is resolved and its last stage is the only
\* Done; a call that has not finished can take a step (a transform returns
\* or throws, the transport responds or fails, the timer fires), also after
\* a request or response transform threw.
C22_ReachesDoneOnce ==
  \A c \in Calls :
    (calls[c].pc # "idle" /\ EffectiveTimeout(c) > 0) =>
      /\ Count(calls[c].stages, "Done") <= 1
      /\ IF calls[c].pc = "done"
         THEN /\ calls[c].result = "resolved"
              /\ calls[c].stages[Len(calls[c].stages)] = "Done"
         ELSE ENABLED Pipeline(c)

\* The envelope of call c as request() built it last, before the monitors
\* were given it.
Built(c) ==
  IF calls[c].beforeMonitors # <<>> THEN calls[c].beforeMonitors[1]
  ELSE calls[c].envs[Len(calls[c].envs)]

\* C26: when the transport invocation fails before any response (an abort,
\* a connectivity failure), the envelope has ok false, data undefined, status
\* undefined, headers undefined, no raw response handle, originalError the
\* caught failure, and problem the classification of that failure.
C26_NoResponseEnvelope ==
  \A c \in Calls :
    (calls[c].fetchError # NoError /\ calls[c].result # "rejected") =>
      LET e == Built(c) IN
      /\ Len(calls[c].envs) = 1
      /\ e.ok = FALSE
      /\ e.data = Undefined
      /\ e.status = UndefinedNum
      /\ e.headers = NoHeaders
      /\ e.response = NoResponse
      /\ e.originalError = calls[c].fetchError
      /\ e.problem = classifyProblem(UndefinedNum, calls[c].fetchError)
      /\ calls[c].fetchError \in TransportErrors => e.problem = "NETWORK_ERROR"

\* A call whose transport failed with 'Failed to fetch' returned its
\* envelope.
C26_Witness ==
  \E c \in Calls :
    /\ calls[c].fetchError \in TransportErrors
    /\ calls[c].result = "resolved"
    /\ Built(c).problem = "NETWORK_ERROR"
    /\ Built(c).data = Undefined

\* Reading or parsing the body of a response fails: the stream errors, or
\* the body is not the JSON its content type announces.
ParseFails(response) ==
  \/ ~response.readable
  \/ /\ "content-type" \in DOMAIN response.headers
     /\ ContentTypeIncludes(response.headers["content-type"], "application/json")
     /\ JsonParse(response.text) = "SyntaxError"

\* The transport of call c answered with a response.
Responded(c) == Completed(c) /\ calls[c].fetchError = NoError

\* The envelope request() built from the response, before any monitor.
FromResponse(c) == IF Len(calls[c].envs) = 1 THEN Built(c) ELSE calls[c].envs[1]

\* C27: a failure to read or parse the body never fails the call. With a
\* status in 200..299 the envelope has ok true, problem null, the received
\* status and data null; with a status outside it the envelope keeps the
\* status-derived problem, with data null.
C27_ParseFailureTolerated ==
  \A c \in Calls :
    (Responded(c) /\ ParseFails(FromResponse(c).response)) =>
      LET e == FromResponse(c)
          s == e.response.status IN
      /\ e.response # NoResponse
      /\ e.status = s
      /\ e.data = JsNull
      /\ s \in 200..299 => e.ok /\ e.problem = JsNull
      /\ s \notin 200..299 =>
           /\ ~e.ok
           /\ e.problem = IF s \in 400..499 THEN "CLIENT_ERROR"
                           ELSE IF s \in 500..599 THEN "SERVER_ERROR"
                           ELSE "UNKNOWN_ERROR"

\* The header names an instance or per-call header set of call c defines.
OverridingKeys(c) ==
  DOMAIN NewHeaders(HeadersObject(config.headers))
    \cup DOMAIN NewHeaders(Deref(calls[c].config.headers))

\* C31: when the outgoing body is a multipart-form or url-encoded-form value
\* the default Content-Type and Accept headers are not part of the headers
\* handed to the transport; for every other call (no body, string body,
\* JSON-serialized body) they are part of them unless an instance or
\* per-call header overrides the same key.
C31_DefaultHeaders ==
  \A c \in Calls : \A k \in DOMAIN calls[c].sent :
    LET req == calls[c].sent[k]
        defaults == NewHeaders(RecordHeaders(DEFAULT_HEADERS)) IN
    \A name \in DOMAIN defaults :
      IF req.body.t \in {"FormData", "URLSearchParams"}
        THEN name \in DOMAIN req.headers => name \in OverridingKeys(c)
        ELSE /\ name \in DOMAIN req.headers
             /\ name \notin OverridingKeys(c) => req.headers[name] = defaults[name]

\* C32: a call carries a body exactly when its method, compared without
\* regard to case, is none of GET, HEAD, DELETE: for those three the
\* transport receives no body and the third argument is the query mapping of
\* the URL; for every other method, non-standard verbs included, the third
\* argument is the outgoing payload and is not put into the URL.
C32_BodyByMethod ==
  \A c \in Calls : \A k \in DOMAIN calls[c].sent :
    LET req == calls[c].sent[k]
        arg == calls[c].arg
        target == Concatenated(config.baseURL, calls[c].url) IN
    IF calls[c].method \in BodilessMethods
      THEN /\ req.body = NoData
           /\ req.url = Joined(target, buildQueryString(arg.entries))
      ELSE /\ req.body = prepareRequestBody(arg)
           /\ req.url = target

\* A lower-case delete sent its third argument as the query string, and a
\* non-standard verb sent its own as the body.
C32_Witness ==
  \E c \in Calls :
    /\ calls[c].sent # <<>>
    /\ calls[c].method = "delete"
    /\ calls[c].arg.entries # <<>>
    /\ calls[c].sent[1].body = NoData
    /\ HasQuery(calls[c].sent[1].url)

\* The timer expired and the caller's signal was cancelled, both before the
\* transport completed, and the transport then failed.
BothCancelled(c) ==
  /\ Len(calls[c].cancellations) = 2
  /\ calls[c].fetchError # NoError

\* C34: when both the timer expiry and the external signal's cancellation
\* occur before the transport completes, in either order, the internal
\* signal is cancelled once, with the reason of the event that came first,
\* and the envelope's problem is TIMEOUT if the timer was first and
\* CANCELLED if the external cancellation was first.
C34_FirstCancellationWins ==
  \A c \in Calls :
    BothCancelled(c) =>
      LET first == calls[c].cancellations[1] IN
      /\ calls[c].cancellations \in {<<"timer", "signal">>, <<"signal", "timer">>}
      /\ calls[c].aborted
      /\ calls[c].reason = IF first = "timer" THEN TimeoutReason ELSE signals[c].reason
      /\ calls[c].fetchError \in AbortRejections(calls[c].reason)
      /\ Built(c).problem = IF first = "timer" THEN "TIMEOUT_ERROR" ELSE "CANCEL_ERROR"

\* C35: a cancellation of the external signal that happens before the
\* transport invoker subscribes to it (while the request transforms are
\* running, or before them) is still propagated: once the transport is
\* invoked the internal controller is cancelled with the same reason, the
\* transport does not complete normally, and the envelope reports the
\* cancellation.
C35_EarlyCancellationPropagated ==
  \A c \in Calls :
    (signals[c].early /\ calls[c].sent # <<>>) =>
      /\ calls[c].aborted
      /\ calls[c].reason = signals[c].reason
      /\ Completed(c) =>
           /\ calls[c].fetchError \in AbortRejections(signals[c].reason)
           /\ ~Built(c).ok
           /\ Built(c).problem = "CANCEL_ERROR"

\* The methods of the entry points get, delete, head, link and unlink, whose
\* third parameter is declared as params.
ParamsVerbs == {"GET", "DELETE", "HEAD", "LINK", "UNLINK"}

\* C37: for every per-verb entry point whose third argument is declared as
\* params (get, delete, head, link, unlink) that argument is serialized into
\* the query string of the request URL and is not sent as the request body.
C37_ParamsGoToQuery ==
  \A c \in Calls : \A k \in DOMAIN calls[c].sent :
    calls[c].method \in ParamsVerbs =>
      /\ calls[c].sent[k].url =
           Joined(Concatenated(config.baseURL, calls[c].url),
                  buildQueryString(calls[c].arg.entries))
      /\ calls[c].sent[k].body = NoData

\* C38: NONE never appears as the problem of an envelope handed to a
\* response transform, a monitor or the caller: problem is null when ok is
\* true, and one of CLIENT, SERVER, TIMEOUT, CONNECTION, NETWORK, CANCELLED,
\* UNKNOWN when ok is false.
C38_NoneNeverSurfaces ==
  \A c \in Calls : \A k \in DOMAIN calls[c].envs :
    LET e == calls[c].envs[k] IN
    /\ e.problem # "NONE"
    /\ e.ok => e.problem = JsNull
    /\ ~e.ok => e.problem \in {"CLIENT_ERROR", "SERVER_ERROR", "TIMEOUT_ERROR",
                                "CONNECTION_ERROR", "NETWORK_ERROR", "CANCEL_ERROR",
                                "UNKNOWN_ERROR"}

\* The caller got the envelope of a 201 after a response transform and a
\* monitor were given it.
C38_Witness ==
  \E c \in Calls :
    /\ calls[c].result = "resolved"
    /\ calls[c].respLog # <<>>
    /\ calls[c].monLog # <<>>
    /\ Built(c).status = 201
    /\ Built(c).ok
    /\ Built(c).problem = JsNull

\* C39: within one call no registered response transform is invoked more
\* than once, also when a response transform throws, and the
\* ResponseTransforms stage is entered at most once.
C39_ResponseTransformsOnce ==
  \A c \in Calls :
    /\ \A t \in Range(responseTransforms) : Count(Firsts(calls[c].respLog), t) <= 1
    /\ Count(calls[c].stages, "ResponseTransforms") <= 1

\* C40: a call leaves the instance as it found it: whatever it overrides and
\* however it ends, as long as no request transform has set a header on its
\* argument's header set, the base URL, default headers, default timeout and
\* the three registration lists are those the call started with.
C40_CallLeavesInstance ==
  \A c \in Calls :
    (calls[c].atStart # <<>> /\ "x-request-id" \notin DOMAIN HeaderView(c)) =>
      LET start == calls[c].atStart[1] IN
      /\ config = start.config
      /\ requestTransforms = start.requestTransforms
      /\ responseTransforms = start.responseTransforms
      /\ monitors = start.monitors

C40_Witness ==
  \E c \in Calls :
    /\ calls[c].result = "resolved"
    /\ calls[c].config.headers.t = "record"
    /\ calls[c].config.timeout # UndefinedNum
    /\ "x-request-id" \notin DOMAIN HeaderView(c)
    /\ NewHeaders(calls[c].config.headers) # config.headers
    /\ config = calls[c].atStart[1].config

====
